---- MODULE Spec2Model ----
(***************************************************************************)
(* A model of serde_test's token Deserializer (src/serde_test/src/de.rs):  *)
(* a cursor over a flat token list, driven by visitors through the         *)
(* Deserializer protocol.  The decoder's methods are the actions; the      *)
(* visitors of the decoded types are the callers and callees of these      *)
(* methods and are modelled by a type descriptor per visitor.              *)
(***************************************************************************)
EXTENDS Integers, Sequences, FiniteSets, TLC

\* ------------------------------------------------------------------ bounds
\* Largest number of elements of a sequence or map value, and the arity of
\* the tuples, tuple structs and structs of the model.
MaxLen == 2
\* Largest u8 payload.
MaxU8 == 1

\* ------------------------------------------------------------------ tokens
\* Option<usize>::None as a declared length.
NoLen == 0 - 1

Tok(k, n, v, i) == [k |-> k, n |-> n, v |-> v, i |-> i]
NoTok == Tok("-", "", "", 0)

TBool(b) == Tok("Bool", "", "", b)
TU8(x) == Tok("U8", "", "", x)
TStr(s) == Tok("Str", "", s, 0)
TOption(b) == Tok("Option", "", "", b)
TUnit == Tok("Unit", "", "", 0)
TUnitStruct(n) == Tok("UnitStruct", n, "", 0)
TStructNewType(n) == Tok("StructNewType", n, "", 0)
TSeqStart(len) == Tok("SeqStart", "", "", len)
TSeqArrayStart(len) == Tok("SeqArrayStart", "", "", len)
TSeqSep == Tok("SeqSep", "", "", 0)
TSeqEnd == Tok("SeqEnd", "", "", 0)
TTupleStart(len) == Tok("TupleStart", "", "", len)
TTupleSep == Tok("TupleSep", "", "", 0)
TTupleEnd == Tok("TupleEnd", "", "", 0)
TTupleStructStart(n, len) == Tok("TupleStructStart", n, "", len)
TTupleStructSep == Tok("TupleStructSep", "", "", 0)
TTupleStructEnd == Tok("TupleStructEnd", "", "", 0)
TMapStart(len) == Tok("MapStart", "", "", len)
TMapSep == Tok("MapSep", "", "", 0)
TMapEnd == Tok("MapEnd", "", "", 0)
TStructStart(n, len) == Tok("StructStart", n, "", len)
TStructSep == Tok("StructSep", "", "", 0)
TStructEnd == Tok("StructEnd", "", "", 0)
TEnumStart(n) == Tok("EnumStart", n, "", 0)
TEnumUnit(n, v) == Tok("EnumUnit", n, v, 0)
TEnumNewType(n, v) == Tok("EnumNewType", n, v, 0)
TEnumSeqStart(n, v, len) == Tok("EnumSeqStart", n, v, len)
TEnumSeqSep == Tok("EnumSeqSep", "", "", 0)
TEnumSeqEnd == Tok("EnumSeqEnd", "", "", 0)
TEnumMapStart(n, v, len) == Tok("EnumMapStart", n, v, len)
TEnumMapSep == Tok("EnumMapSep", "", "", 0)
TEnumMapEnd == Tok("EnumMapEnd", "", "", 0)

\* ------------------------------------------------------------------ errors
Err(e, tok, name) == [e |-> e, tok |-> tok, name |-> name]
NoErr == Err("-", NoTok, "")
UnexpectedToken(tok) == Err("UnexpectedToken", tok, "")
EndOfTokens == Err("EndOfTokens", NoTok, "")
InvalidName(n) == Err("InvalidName", NoTok, n)
\* An error raised by a visitor (de::Error::custom and its relatives).
Message(m) == Err("Message", NoTok, m)

\* ------------------------------------------------------------------ values
Val(k, s, i, c) == [k |-> k, s |-> s, i |-> i, c |-> c]
NoVal == Val("-", "", 0, <<>>)

\* Result<Value, Error>, and "none" while no call has returned.
Ok(v) == [st |-> "ok", val |-> v, err |-> NoErr]
Fail(e) == [st |-> "err", val |-> NoVal, err |-> e]
NoRet == [st |-> "none", val |-> NoVal, err |-> NoErr]

\* ------------------------------------------------------------------ types
\* A visitor is named by the type it builds.  subs: the element, field or
\* variant types; fields: the field or variant names; deny: the struct
\* rejects unknown fields.
Ty(t, name, subs, fields, deny) ==
    [t |-> t, name |-> name, subs |-> subs, fields |-> fields, deny |-> deny]
Scalar(t) == Ty(t, "", <<>>, <<>>, FALSE)
TyU8 == Scalar("U8")
TyBool == Scalar("Bool")
TyStr == Scalar("Str")
TyUnit == Scalar("Unit")
TyIgnored == Scalar("Ignored")
TyOption(a) == Ty("Option", "", <<a>>, <<>>, FALSE)
TySeq(a) == Ty("Seq", "", <<a>>, <<>>, FALSE)
TyMap(k, v) == Ty("Map", "", <<k, v>>, <<>>, FALSE)
TyArray(subs) == Ty("Array", "", subs, <<>>, FALSE)
TyTuple(subs) == Ty("Tuple", "", subs, <<>>, FALSE)
TyUnitStruct(n) == Ty("UnitStruct", n, <<>>, <<>>, FALSE)
TyNewtype(n, a) == Ty("Newtype", n, <<a>>, <<>>, FALSE)
TyTupleStruct(n, subs) == Ty("TupleStruct", n, subs, <<>>, FALSE)
TyStruct(n, fields, subs, deny) == Ty("Struct", n, subs, fields, deny)
\* The identifier (field name or variant name) visitor of a struct or enum.
TyIdent(fields, deny) == Ty("Ident", "", <<>>, fields, deny)
\* Variant shapes; an enum's subs are its variants.
TyVUnit(v) == Ty("VUnit", v, <<>>, <<>>, FALSE)
TyVNewtype(v, a) == Ty("VNewtype", v, <<a>>, <<>>, FALSE)
TyVTuple(v, subs) == Ty("VTuple", v, subs, <<>>, FALSE)
TyVStruct(v, fields, subs) == Ty("VStruct", v, subs, fields, TRUE)
TyEnum(n, variants) ==
    Ty("Enum", n, variants, [i \in 1..Len(variants) |-> variants[i].name], TRUE)

FieldNames == <<"a", "b", "c", "d">>
Fields(n) == SubSeq(FieldNames, 1, n)
U8s(n) == [i \in 1..n |-> TyU8]

EnumE ==
    TyEnum("E", << TyVUnit("Vu"), TyVNewtype("Vn", TyU8),
                   TyVTuple("Vt", U8s(MaxLen)),
                   TyVStruct("Vs", Fields(MaxLen), U8s(MaxLen)),
                   TyVStruct("Vz", <<>>, <<>>) >>)
StructS == TyStruct("S", Fields(MaxLen), U8s(MaxLen), FALSE)
StructD == TyStruct("S", Fields(MaxLen), U8s(MaxLen), TRUE)

\* The types decoded at the top level.
Types ==
    { TyU8, TyBool, TyStr, TyUnit, TyIgnored,
      TyOption(TyU8), TySeq(TyU8), TyMap(TyStr, TyU8),
      TyArray(U8s(MaxLen)), TyTuple(U8s(MaxLen)),
      TyUnitStruct("S"), TyNewtype("S", TyU8),
      TyTupleStruct("S", U8s(MaxLen)), StructS, StructD, EnumE,
      TyOption(TySeq(TyU8)), TySeq(StructS) }

\* --------------------------------------------------------- sample values
\* Number of sample values drawn per type, and of those the number whose
\* token lists are also perturbed token by token.
NumSamples == 6
NumExpected == 2
NumPerturbed == 5

Build(ty, c) == Val(ty.t, ty.name, 0, c)
OptNone == Val("Option", "None", 0, <<>>)
OptSome(x) == Val("Option", "Some", 0, <<x>>)
TupleLike == {"Array", "Tuple", "TupleStruct", "Struct", "VTuple", "VStruct"}

RECURSIVE Sample(_, _)
Sample(ty, k) ==
    CASE ty.t = "U8" -> Val("U8", "", k % (MaxU8 + 1), <<>>)
      [] ty.t = "Bool" -> Val("Bool", "", k % 2, <<>>)
      [] ty.t = "Str" -> Val("Str", FieldNames[(k % 2) + 1], 0, <<>>)
      [] ty.t = "Unit" -> Val("Unit", "", 0, <<>>)
      [] ty.t = "Option" ->
            IF k % 2 = 0 THEN OptNone ELSE OptSome(Sample(ty.subs[1], k \div 2))
      [] ty.t = "Seq" ->
            Build(ty, [i \in 1..(k % (MaxLen + 1)) |->
                          Sample(ty.subs[1], (k \div (MaxLen + 1)) + i)])
      [] ty.t = "Map" ->
            Build(ty, [i \in 1..(2 * (k % (MaxLen + 1))) |->
                          IF i % 2 = 1
                          THEN Val("Str", FieldNames[(i + 1) \div 2], 0, <<>>)
                          ELSE Sample(ty.subs[2], (k \div (MaxLen + 1)) + (i \div 2))])
      [] ty.t \in TupleLike \cup {"Newtype", "UnitStruct", "VNewtype", "VUnit"} ->
            Build(ty, [i \in 1..Len(ty.subs) |-> Sample(ty.subs[i], k + i)])
      [] ty.t = "Enum" ->
            LET v == (k % Len(ty.subs)) + 1
                p == Sample(ty.subs[v], k \div Len(ty.subs))
            IN  Val("Enum", ty.fields[v], 0,
                    IF ty.subs[v].t \in {"VUnit", "VNewtype"} THEN p.c ELSE <<p>>)
      [] OTHER -> NoVal

\* --------------------------------------------------------------- encoder
\* The token list a serializer writes for value v of type ty: one separator
\* before every element or entry, names and lengths in the start tokens.
RECURSIVE Encode(_, _)
RECURSIVE EncElems(_, _, _, _)
EncElems(sep, tys, vs, i) ==
    IF i > Len(vs) THEN <<>>
    ELSE <<sep>> \o Encode(tys[IF Len(tys) = 1 THEN 1 ELSE i], vs[i])
         \o EncElems(sep, tys, vs, i + 1)
RECURSIVE EncEntries(_, _, _, _)
EncEntries(sep, ty, vs, i) ==
    IF i > Len(vs) THEN <<>>
    ELSE sep \o <<TStr(ty.fields[i])>> \o Encode(ty.subs[i], vs[i])
         \o EncEntries(sep, ty, vs, i + 1)
RECURSIVE EncMap(_, _, _)
EncMap(ty, vs, i) ==
    IF i > Len(vs) THEN <<>>
    ELSE <<TMapSep>> \o Encode(ty.subs[1], vs[i]) \o Encode(ty.subs[2], vs[i + 1])
         \o EncMap(ty, vs, i + 2)
VariantTy(ty, v) == ty.subs[CHOOSE i \in 1..Len(ty.subs) : ty.fields[i] = v]
EncVariant(e, vt, c) ==
    CASE vt.t = "VUnit" -> <<TEnumUnit(e, vt.name)>>
      [] vt.t = "VNewtype" -> <<TEnumNewType(e, vt.name)>> \o Encode(vt.subs[1], c[1])
      [] vt.t = "VTuple" ->
            <<TEnumSeqStart(e, vt.name, Len(vt.subs))>>
            \o EncElems(TEnumSeqSep, vt.subs, c[1].c, 1) \o <<TEnumSeqEnd>>
      [] vt.t = "VStruct" ->
            <<TEnumMapStart(e, vt.name, Len(vt.subs))>>
            \o EncEntries(<<TEnumMapSep>>, vt, c[1].c, 1) \o <<TEnumMapEnd>>
Encode(ty, v) ==
    CASE ty.t = "U8" -> <<TU8(v.i)>>
      [] ty.t = "Bool" -> <<TBool(v.i)>>
      [] ty.t = "Str" -> <<TStr(v.s)>>
      [] ty.t = "Unit" -> <<TUnit>>
      [] ty.t = "Option" ->
            IF v.s = "None" THEN <<TOption(0)>>
            ELSE <<TOption(1)>> \o Encode(ty.subs[1], v.c[1])
      [] ty.t = "Seq" ->
            <<TSeqStart(Len(v.c))>> \o EncElems(TSeqSep, ty.subs, v.c, 1) \o <<TSeqEnd>>
      [] ty.t = "Array" ->
            <<TSeqArrayStart(Len(v.c))>> \o EncElems(TSeqSep, ty.subs, v.c, 1)
            \o <<TSeqEnd>>
      [] ty.t = "Tuple" ->
            <<TTupleStart(Len(v.c))>> \o EncElems(TTupleSep, ty.subs, v.c, 1)
            \o <<TTupleEnd>>
      [] ty.t = "Map" ->
            <<TMapStart(Len(v.c) \div 2)>> \o EncMap(ty, v.c, 1) \o <<TMapEnd>>
      [] ty.t = "UnitStruct" -> <<TUnitStruct(ty.name)>>
      [] ty.t = "Newtype" -> <<TStructNewType(ty.name)>> \o Encode(ty.subs[1], v.c[1])
      [] ty.t = "TupleStruct" ->
            <<TTupleStructStart(ty.name, Len(v.c))>>
            \o EncElems(TTupleStructSep, ty.subs, v.c, 1) \o <<TTupleStructEnd>>
      [] ty.t = "Struct" ->
            <<TStructStart(ty.name, Len(v.c))>>
            \o EncEntries(<<TStructSep>>, ty, v.c, 1) \o <<TStructEnd>>
      [] ty.t = "Enum" -> EncVariant(ty.name, VariantTy(ty, v.s), v.c)

\* ------------------------------------------------------------ the cursor
\* self.tokens.first(): the next token, NoTok for None.
first(toks) == IF toks = <<>> THEN NoTok ELSE Head(toks)

\* next_token without the advance of the slice: the token is returned and
\* stays at the front (C4 tells it from next_token).
next_token_no_advance(toks) ==
    IF toks # <<>> THEN [tok |-> Head(toks), rest |-> toks]
    ELSE [tok |-> NoTok, rest |-> toks]

\* Deserializer::next_token: the token pulled off and the slice left.
next_token(toks) ==
    IF toks # <<>> THEN [tok |-> Head(toks), rest |-> Tail(toks)]
    ELSE [tok |-> NoTok, rest |-> toks]

\* expect_token without the comparison: any token at all is accepted
\* (C3 tells it from expect_token).
expect_token_any(toks, expected) ==
    LET r == next_token(toks)
    IN  [res |-> IF r.tok # NoTok THEN Ok(NoVal) ELSE Fail(EndOfTokens),
         rest |-> r.rest]

\* Deserializer::expect_token.
expect_token(toks, expected) ==
    LET r == next_token(toks)
    IN  [res |-> IF r.tok # NoTok
                 THEN IF expected = r.tok THEN Ok(NoVal)
                      ELSE Fail(UnexpectedToken(r.tok))
                 ELSE Fail(EndOfTokens),
         rest |-> r.rest]

\* ------------------------------------------ what a decoder method decides
\* k: "err" return Err(err); "ok" return Ok(()); "none" return Ok(None);
\*    "call" invoke visitor method m; "generic" self.deserialize(visitor);
\*    "seed" seed.deserialize(self.de); "seed_str" seed.deserialize(s.into_deserializer()).
\* n: the number of tokens taken by next_token before that.
\* h: the method that checks the terminator once the visitor has returned;
\* sub: the sub-decoder handed to visit_seq / visit_map.
Out(k, n, err, m, s, i, len, sep, end, h, sub) ==
    [k |-> k, n |-> n, err |-> err, m |-> m, s |-> s, i |-> i,
     len |-> len, sep |-> sep, end |-> end, h |-> h, sub |-> sub]
RetErr(n, e) == Out("err", n, e, "", "", 0, NoLen, NoTok, NoTok, "", "")
RetOk(n) == Out("ok", n, NoErr, "", "", 0, NoLen, NoTok, NoTok, "", "")
RetNone == Out("none", 0, NoErr, "", "", 0, NoLen, NoTok, NoTok, "", "")
Generic == Out("generic", 0, NoErr, "", "", 0, NoLen, NoTok, NoTok, "", "")
Seed(n) == Out("seed", n, NoErr, "", "", 0, NoLen, NoTok, NoTok, "", "")
SeedStr(s) == Out("seed_str", 0, NoErr, "visit_str", s, 0, NoLen, NoTok, NoTok, "", "")
Visit(n, m, s, i) == Out("call", n, NoErr, m, s, i, NoLen, NoTok, NoTok, "", "")
\* Deserializer::visit_seq and visit_map up to the call of the visitor.
visit_seq(n, len, sep, end) ==
    Out("call", n, NoErr, "visit_seq", "", 0, len, sep, end,
        "Deserializer::visit_seq", "DeserializerSeqVisitor")
visit_map(n, len, sep, end) ==
    Out("call", n, NoErr, "visit_map", "", 0, len, sep, end,
        "Deserializer::visit_map", "DeserializerMapVisitor")
\* visitor.visit_map(EnumMapVisitor::new(self, variant))
EnumMapVisitor_new(n, variant) ==
    Out("call", n, NoErr, "visit_map", variant, 0, NoLen, NoTok, NoTok,
        "", "EnumMapVisitor")

\* deserialize whose fallback arm reports the token it has only looked at
\* (C24 tells it from deserialize).
deserialize_peek_unexpected(toks) ==
    LET t == first(toks)
    IN  CASE t = NoTok -> RetErr(0, EndOfTokens)
          [] t.k = "Bool" -> Visit(1, "visit_bool", "", t.i)
          [] t.k = "U8" -> Visit(1, "visit_u8", "", t.i)
          [] t.k = "Str" -> Visit(1, "visit_str", t.v, 0)
          [] t.k = "Option" /\ t.i = 0 -> Visit(1, "visit_none", "", 0)
          [] t.k = "Option" /\ t.i # 0 -> Visit(1, "visit_some", "", 0)
          [] t.k = "Unit" -> Visit(1, "visit_unit", "", 0)
          [] t.k = "UnitStruct" -> Visit(1, "visit_unit", "", 0)
          [] t.k = "SeqStart" -> visit_seq(1, t.i, TSeqSep, TSeqEnd)
          [] t.k = "SeqArrayStart" -> visit_seq(1, t.i, TSeqSep, TSeqEnd)
          [] t.k = "TupleStart" -> visit_seq(1, t.i, TTupleSep, TTupleEnd)
          [] t.k = "TupleStructStart" ->
                visit_seq(1, t.i, TTupleStructSep, TTupleStructEnd)
          [] t.k = "MapStart" -> visit_map(1, t.i, TMapSep, TMapEnd)
          [] t.k = "StructStart" -> visit_map(1, t.i, TStructSep, TStructEnd)
          [] t.k = "EnumUnit" -> Visit(1, "visit_str", t.v, 0)
          [] t.k = "EnumStart" -> EnumMapVisitor_new(1, t.n)
          [] t.k \in {"EnumNewType", "EnumSeqStart", "EnumMapStart"} ->
                EnumMapVisitor_new(1, t.v)
          [] OTHER -> RetErr(0, UnexpectedToken(t))

\* Deserializer::deserialize: the generic dispatch on the token pulled off.
deserialize(toks) ==
    LET t == first(toks)
    IN  CASE t = NoTok -> RetErr(0, EndOfTokens)
          [] t.k = "Bool" -> Visit(1, "visit_bool", "", t.i)
          [] t.k = "U8" -> Visit(1, "visit_u8", "", t.i)
          [] t.k = "Str" -> Visit(1, "visit_str", t.v, 0)
          [] t.k = "Option" /\ t.i = 0 -> Visit(1, "visit_none", "", 0)
          [] t.k = "Option" /\ t.i # 0 -> Visit(1, "visit_some", "", 0)
          [] t.k = "Unit" -> Visit(1, "visit_unit", "", 0)
          [] t.k = "UnitStruct" -> Visit(1, "visit_unit", "", 0)
          [] t.k = "SeqStart" -> visit_seq(1, t.i, TSeqSep, TSeqEnd)
          [] t.k = "SeqArrayStart" -> visit_seq(1, t.i, TSeqSep, TSeqEnd)
          [] t.k = "TupleStart" -> visit_seq(1, t.i, TTupleSep, TTupleEnd)
          [] t.k = "TupleStructStart" ->
                visit_seq(1, t.i, TTupleStructSep, TTupleStructEnd)
          [] t.k = "MapStart" -> visit_map(1, t.i, TMapSep, TMapEnd)
          [] t.k = "StructStart" -> visit_map(1, t.i, TStructSep, TStructEnd)
          [] t.k = "EnumUnit" -> Visit(1, "visit_str", t.v, 0)
          [] t.k = "EnumStart" -> EnumMapVisitor_new(1, t.n)
          [] t.k \in {"EnumNewType", "EnumSeqStart", "EnumMapStart"} ->
                EnumMapVisitor_new(1, t.v)
          [] OTHER -> RetErr(1, UnexpectedToken(t))

\* deserialize_option without the Unit arm: a Unit token is handed to
\* visit_some unconsumed (C5 tells it from deserialize_option).
deserialize_option_no_unit(toks) ==
    LET t == first(toks)
    IN  CASE t = NoTok -> RetErr(0, EndOfTokens)
          [] t.k = "Option" /\ t.i = 0 -> Visit(1, "visit_none", "", 0)
          [] t.k = "Option" /\ t.i # 0 -> Visit(1, "visit_some", "", 0)
          [] OTHER -> Visit(0, "visit_some", "", 0)

\* deserialize_option whose pass-through asks for the same decode again
\* instead of handing the decoder to visit_some (C23 tells it from
\* deserialize_option).
deserialize_option_again(toks) ==
    LET t == first(toks)
    IN  CASE t = NoTok -> RetErr(0, EndOfTokens)
          [] t.k = "Unit" \/ (t.k = "Option" /\ t.i = 0) ->
                Visit(1, "visit_none", "", 0)
          [] t.k = "Option" /\ t.i # 0 -> Visit(1, "visit_some", "", 0)
          [] OTHER -> Seed(0)

\* Deserializer::deserialize_option.
deserialize_option(toks) ==
    LET t == first(toks)
    IN  CASE t = NoTok -> RetErr(0, EndOfTokens)
          [] t.k = "Unit" \/ (t.k = "Option" /\ t.i = 0) ->
                Visit(1, "visit_none", "", 0)
          [] t.k = "Option" /\ t.i # 0 -> Visit(1, "visit_some", "", 0)
          [] OTHER -> Visit(0, "visit_some", "", 0)

\* deserialize_enum without the comparison of the names (C9 tells it from
\* deserialize_enum).
deserialize_enum_any_name(toks, name) ==
    LET t == first(toks)
    IN  CASE t = NoTok -> RetErr(0, EndOfTokens)
          [] t.k = "EnumStart" -> Visit(1, "visit_enum", "", 0)
          [] t.k \in {"EnumUnit", "EnumNewType", "EnumSeqStart", "EnumMapStart"} ->
                Visit(0, "visit_enum", "", 0)
          [] OTHER -> RetErr(1, UnexpectedToken(t))

\* Deserializer::deserialize_enum.
deserialize_enum(toks, name) ==
    LET t == first(toks)
    IN  CASE t = NoTok -> RetErr(0, EndOfTokens)
          [] t.k = "EnumStart" /\ name = t.n -> Visit(1, "visit_enum", "", 0)
          [] t.k \in {"EnumUnit", "EnumNewType", "EnumSeqStart", "EnumMapStart"}
             /\ name = t.n -> Visit(0, "visit_enum", "", 0)
          [] OTHER -> RetErr(1, UnexpectedToken(t))

deserialize_unit_struct(toks, name) ==
    LET t == first(toks)
    IN  CASE t = NoTok -> RetErr(0, EndOfTokens)
          [] t.k = "UnitStruct" ->
                IF name = t.n THEN Visit(1, "visit_unit", "", 0)
                ELSE RetErr(1, InvalidName(t.n))
          [] OTHER -> Generic

deserialize_newtype_struct(toks, name) ==
    LET t == first(toks)
    IN  CASE t = NoTok -> RetErr(0, EndOfTokens)
          [] t.k = "StructNewType" ->
                IF name = t.n THEN Visit(1, "visit_newtype_struct", "", 0)
                ELSE RetErr(1, InvalidName(t.n))
          [] OTHER -> Generic

deserialize_seq_fixed_size(toks, len) ==
    LET t == first(toks)
    IN  CASE t = NoTok -> RetErr(0, EndOfTokens)
          [] t.k = "SeqArrayStart" -> visit_seq(1, len, TSeqSep, TSeqEnd)
          [] OTHER -> Generic

deserialize_tuple(toks, len) ==
    LET t == first(toks)
    IN  CASE t = NoTok -> RetErr(0, EndOfTokens)
          [] t.k \in {"Unit", "UnitStruct"} -> Visit(1, "visit_unit", "", 0)
          [] t.k \in {"SeqStart", "SeqArrayStart"} ->
                visit_seq(1, len, TSeqSep, TSeqEnd)
          [] t.k = "TupleStart" -> visit_seq(1, len, TTupleSep, TTupleEnd)
          [] t.k = "TupleStructStart" ->
                visit_seq(1, len, TTupleStructSep, TTupleStructEnd)
          [] OTHER -> Generic

deserialize_tuple_struct(toks, name, len) ==
    LET t == first(toks)
    IN  CASE t = NoTok -> RetErr(0, EndOfTokens)
          [] t.k = "Unit" -> Visit(1, "visit_unit", "", 0)
          [] t.k = "UnitStruct" ->
                IF name = t.n THEN Visit(1, "visit_unit", "", 0)
                ELSE RetErr(1, InvalidName(t.n))
          [] t.k \in {"SeqStart", "SeqArrayStart"} ->
                visit_seq(1, len, TSeqSep, TSeqEnd)
          [] t.k = "TupleStart" -> visit_seq(1, len, TTupleSep, TTupleEnd)
          [] t.k = "TupleStructStart" ->
                IF name = t.n
                THEN visit_seq(1, len, TTupleStructSep, TTupleStructEnd)
                ELSE RetErr(1, InvalidName(t.n))
          [] OTHER -> Generic

\* deserialize_struct reading a plain map with the separator and the
\* terminator of a struct (C11 tells it from deserialize_struct).
deserialize_struct_one_flavor(toks, name, nfields) ==
    LET t == first(toks)
    IN  CASE t = NoTok -> RetErr(0, EndOfTokens)
          [] t.k = "StructStart" ->
                IF name = t.n THEN visit_map(1, nfields, TStructSep, TStructEnd)
                ELSE RetErr(1, InvalidName(t.n))
          [] t.k = "MapStart" -> visit_map(1, nfields, TStructSep, TStructEnd)
          [] OTHER -> Generic

\* deserialize_struct without the comparison of the names (C8 tells it
\* from deserialize_struct).
deserialize_struct_any_name(toks, name, nfields) ==
    LET t == first(toks)
    IN  CASE t = NoTok -> RetErr(0, EndOfTokens)
          [] t.k = "StructStart" -> visit_map(1, nfields, TStructSep, TStructEnd)
          [] t.k = "MapStart" -> visit_map(1, nfields, TMapSep, TMapEnd)
          [] OTHER -> Generic

\* Deserializer::deserialize_struct.
deserialize_struct(toks, name, nfields) ==
    LET t == first(toks)
    IN  CASE t = NoTok -> RetErr(0, EndOfTokens)
          [] t.k = "StructStart" ->
                IF name = t.n THEN visit_map(1, nfields, TStructSep, TStructEnd)
                ELSE RetErr(1, InvalidName(t.n))
          [] t.k = "MapStart" -> visit_map(1, nfields, TMapSep, TMapEnd)
          [] OTHER -> Generic

\* ---------------------------------------------------------- sub-decoders
\* len.map(|len| len.saturating_sub(1))
saturating_sub(len) == IF len = NoLen THEN NoLen ELSE IF len > 0 THEN len - 1 ELSE 0

\* size_hint of DeserializerSeqVisitor and DeserializerMapVisitor.
size_hint(len) == << IF len = NoLen THEN 0 ELSE len, len >>

\* visit_seed without the test of the terminator: the end token is pulled
\* off like any token that is not the separator (C2 tells it from visit_seed).
visit_seed_no_end(toks, len, sep, end) ==
    LET t == first(toks)
    IN  CASE t = NoTok -> RetErr(0, EndOfTokens)
          [] t = sep -> [Seed(1) EXCEPT !.len = saturating_sub(len)]
          [] OTHER -> RetErr(1, UnexpectedToken(t))

\* visit_seed that trusts the declared length: no more elements once the
\* hint has reached zero (C20 tells it from visit_seed).
visit_seed_trust_len(toks, len, sep, end) ==
    LET t == first(toks)
    IN  CASE t = end \/ len = 0 -> RetNone
          [] t = NoTok -> RetErr(0, EndOfTokens)
          [] t = sep -> [Seed(1) EXCEPT !.len = saturating_sub(len)]
          [] OTHER -> RetErr(1, UnexpectedToken(t))

\* DeserializerSeqVisitor::visit_seed; len of a "seed" outcome is the new hint.
visit_seed(toks, len, sep, end) ==
    LET t == first(toks)
    IN  CASE t = end -> RetNone
          [] t = NoTok -> RetErr(0, EndOfTokens)
          [] t = sep -> [Seed(1) EXCEPT !.len = saturating_sub(len)]
          [] OTHER -> RetErr(1, UnexpectedToken(t))

\* visit_key_seed that pulls a token off before every key without comparing
\* it with the separator (C18 tells it from visit_key_seed).
visit_key_seed_any_sep(toks, len, sep, end) ==
    LET t == first(toks)
    IN  CASE t = end -> RetNone
          [] t = NoTok -> RetErr(0, EndOfTokens)
          [] OTHER -> [Seed(1) EXCEPT !.len = saturating_sub(len)]

\* DeserializerMapVisitor::visit_key_seed.
visit_key_seed(toks, len, sep, end) ==
    LET t == first(toks)
    IN  CASE t = end -> RetNone
          [] t = NoTok -> RetErr(0, EndOfTokens)
          [] t = sep -> [Seed(1) EXCEPT !.len = saturating_sub(len)]
          [] OTHER -> RetErr(1, UnexpectedToken(t))

\* DeserializerMapVisitor::visit_value_seed.
visit_value_seed(toks) == Seed(0)

VariantStarts == {"EnumUnit", "EnumNewType", "EnumSeqStart", "EnumMapStart"}

\* visit_variant_seed that pulls the variant token off (C22 tells it from
\* visit_variant_seed).
visit_variant_seed_consume(toks) ==
    LET t == first(toks)
    IN  CASE t = NoTok -> RetErr(0, EndOfTokens)
          [] t.k \in VariantStarts -> [SeedStr(t.v) EXCEPT !.n = 1]
          [] OTHER -> Seed(0)

\* DeserializerEnumVisitor::visit_variant_seed.
visit_variant_seed(toks) ==
    LET t == first(toks)
    IN  CASE t = NoTok -> RetErr(0, EndOfTokens)
          [] t.k \in VariantStarts -> SeedStr(t.v)
          [] OTHER -> Seed(0)

\* visit_unit that takes the end of the tokens for the unit variant (C17
\* tells it from visit_unit).
visit_unit_at_end(toks) ==
    LET t == first(toks)
    IN  CASE t = NoTok -> RetOk(0)
          [] t.k = "EnumUnit" -> RetOk(1)
          [] OTHER -> Seed(0)

\* DeserializerEnumVisitor::visit_unit ("seed": Deserialize::deserialize of ()).
visit_unit(toks) ==
    LET t == first(toks)
    IN  CASE t = NoTok -> RetErr(0, EndOfTokens)
          [] t.k = "EnumUnit" -> RetOk(1)
          [] OTHER -> Seed(0)

\* DeserializerEnumVisitor::visit_newtype_seed.
visit_newtype_seed(toks) ==
    LET t == first(toks)
    IN  CASE t = NoTok -> RetErr(0, EndOfTokens)
          [] t.k = "EnumNewType" -> Seed(1)
          [] OTHER -> Seed(0)

\* visit_tuple without the comparison of the arities (C7 tells it from
\* visit_tuple).
visit_tuple_any_len(toks, len) ==
    LET t == first(toks)
    IN  CASE t = NoTok -> RetErr(0, EndOfTokens)
          [] t.k = "EnumSeqStart" -> visit_seq(1, len, TEnumSeqSep, TEnumSeqEnd)
          [] t.k = "SeqStart" /\ t.i # NoLen -> visit_seq(1, len, TSeqSep, TSeqEnd)
          [] OTHER -> Generic

\* DeserializerEnumVisitor::visit_tuple.
visit_tuple(toks, len) ==
    LET t == first(toks)
    IN  CASE t = NoTok -> RetErr(0, EndOfTokens)
          [] t.k = "EnumSeqStart" ->
                IF len = t.i THEN visit_seq(1, len, TEnumSeqSep, TEnumSeqEnd)
                ELSE RetErr(1, UnexpectedToken(t))
          [] t.k = "SeqStart" /\ t.i # NoLen ->
                IF len = t.i THEN visit_seq(1, len, TSeqSep, TSeqEnd)
                ELSE RetErr(1, UnexpectedToken(t))
          [] OTHER -> Generic

\* visit_struct taking a declared arity of zero for a mismatch (C12 tells
\* it from visit_struct).
visit_struct_nonzero(toks, nfields) ==
    LET t == first(toks)
    IN  CASE t = NoTok -> RetErr(0, EndOfTokens)
          [] t.k = "EnumMapStart" ->
                IF nfields = t.i /\ t.i # 0
                THEN visit_map(1, nfields, TEnumMapSep, TEnumMapEnd)
                ELSE RetErr(1, UnexpectedToken(t))
          [] t.k = "MapStart" /\ t.i # NoLen ->
                IF nfields = t.i /\ t.i # 0
                THEN visit_map(1, nfields, TMapSep, TMapEnd)
                ELSE RetErr(1, UnexpectedToken(t))
          [] OTHER -> Generic

\* DeserializerEnumVisitor::visit_struct.
visit_struct(toks, nfields) ==
    LET t == first(toks)
    IN  CASE t = NoTok -> RetErr(0, EndOfTokens)
          [] t.k = "EnumMapStart" ->
                IF nfields = t.i
                THEN visit_map(1, nfields, TEnumMapSep, TEnumMapEnd)
                ELSE RetErr(1, UnexpectedToken(t))
          [] t.k = "MapStart" /\ t.i # NoLen ->
                IF nfields = t.i THEN visit_map(1, nfields, TMapSep, TMapEnd)
                ELSE RetErr(1, UnexpectedToken(t))
          [] OTHER -> Generic

\* EnumMapVisitor::visit_key_seed; variant is the Option<&str> as a sequence.
EnumMapVisitor_visit_key_seed(variant) ==
    IF variant # <<>> THEN SeedStr(variant[1]) ELSE RetNone

\* EnumMapVisitor::visit_value_seed up to the call of the seed.
EnumMapVisitor_visit_value_seed(toks) ==
    LET t == first(toks)
    IN  CASE t = TEnumSeqSep ->
                Out("call", 0, NoErr, "visit_seq", "", 0, NoLen, TEnumSeqSep,
                    TEnumSeqEnd, "EnumMapVisitor::visit_value_seed",
                    "DeserializerSeqVisitor")
          [] t = TEnumMapSep ->
                Out("call", 0, NoErr, "visit_map", "", 0, NoLen, TEnumMapSep,
                    TEnumMapEnd, "EnumMapVisitor::visit_value_seed",
                    "DeserializerMapVisitor")
          [] OTHER -> Seed(0)

\* ------------------------------------------------------------- visitors
\* The Deserialize impls and visitors of the decoded types (serde's impls
\* and derive output): which entry point a type asks for, which visits its
\* visitor accepts and what it builds from them.
EntryOf(ty) ==
    CASE ty.t = "Option" -> "deserialize_option"
      [] ty.t = "Enum" -> "deserialize_enum"
      [] ty.t = "UnitStruct" -> "deserialize_unit_struct"
      [] ty.t = "Newtype" -> "deserialize_newtype_struct"
      [] ty.t = "Array" -> "deserialize_seq_fixed_size"
      [] ty.t = "Tuple" -> "deserialize_tuple"
      [] ty.t = "TupleStruct" -> "deserialize_tuple_struct"
      [] ty.t = "Struct" -> "deserialize_struct"
      [] OTHER -> "deserialize"

UnitVal == Val("Unit", "", 0, <<>>)
IgnoredVal == Val("Ignored", "", 0, <<>>)
\* Ok(None) of an element, key or variant request.
NoMore == Val("NoMore", "", 0, <<>>)
Missing == Val("Missing", "", 0, <<>>)
InvalidType == Fail(Message("invalid type"))

IdentIndex(ty, s) ==
    IF \E j \in 1..Len(ty.fields) : ty.fields[j] = s
    THEN CHOOSE j \in 1..Len(ty.fields) : ty.fields[j] = s
    ELSE 0

\* The visits that return at once.
VisitImmediate(ty, m, s, i) ==
    CASE ty.t = "Ignored" -> Ok(IgnoredVal)
      [] m = "visit_bool" ->
            IF ty.t = "Bool" THEN Ok(Val("Bool", "", i, <<>>)) ELSE InvalidType
      [] m = "visit_u8" ->
            IF ty.t = "U8" THEN Ok(Val("U8", "", i, <<>>)) ELSE InvalidType
      [] m = "visit_str" ->
            IF ty.t = "Str" THEN Ok(Val("Str", s, 0, <<>>))
            ELSE IF ty.t # "Ident" THEN InvalidType
            ELSE IF IdentIndex(ty, s) > 0
                 THEN Ok(Val("Ident", s, IdentIndex(ty, s), <<>>))
            ELSE IF ty.deny THEN Fail(Message("unknown field"))
            ELSE Ok(Val("Ident", "", 0, <<>>))
      [] m = "visit_none" -> IF ty.t = "Option" THEN Ok(OptNone) ELSE InvalidType
      [] m = "visit_unit" ->
            IF ty.t = "Unit" THEN Ok(UnitVal)
            ELSE IF ty.t = "Option" THEN Ok(OptNone)
            ELSE IF ty.t = "UnitStruct" \/ (ty.t = "Array" /\ ty.subs = <<>>)
                 THEN Ok(Build(ty, <<>>))
            ELSE InvalidType
      [] OTHER -> InvalidType

Immediate == {"visit_bool", "visit_u8", "visit_str", "visit_none", "visit_unit"}
SeqLike == {"Seq", "Ignored"}
FixedSeq == TupleLike \cup {"Newtype", "UnitStruct"}
MapLike == {"Map", "Struct", "VStruct", "Ignored"}

\* Whether the visitor of ty implements method m.
Accepts(ty, m) ==
    CASE m = "visit_some" -> ty.t \in {"Option", "Ignored"}
      [] m = "visit_newtype_struct" -> ty.t \in {"Newtype", "Ignored"}
      [] m = "visit_seq" -> ty.t \in SeqLike \cup FixedSeq
      [] m = "visit_map" -> ty.t \in MapLike
      [] m = "visit_enum" -> ty.t = "Enum"
      [] OTHER -> FALSE

SubTy(ty, j) == IF ty.t = "Ignored" THEN TyIgnored ELSE ty.subs[j]

\* ---------------------------------------------------------------- frames
\* One frame per call in progress.  fn: the method; pc: where it stands;
\* ty: the visitor; len, sep, end, variant: the fields of the sub-decoder a
\* visit_seq / visit_map frame was handed; acc, idx: what the visitor has
\* collected.
Frame(fn, pc, ty) ==
    [fn |-> fn, pc |-> pc, ty |-> ty, len |-> NoLen, sep |-> NoTok,
     end |-> NoTok, sub |-> "", variant |-> <<>>, acc |-> <<>>, idx |-> 0]
\* T::deserialize(de)
CallFrame(ty) == Frame(EntryOf(ty), "start", ty)

\* The seed of the next element, key, value and variant request.
ElemTy(f) == IF f.ty.t \in FixedSeq THEN f.ty.subs[Len(f.acc) + 1] ELSE SubTy(f.ty, 1)
KeyTy(f) ==
    IF f.ty.t \in {"Struct", "VStruct"} THEN TyIdent(f.ty.fields, f.ty.deny)
    ELSE SubTy(f.ty, 1)
ValueTy(f) ==
    IF f.ty.t \in {"Struct", "VStruct"}
    THEN IF f.idx > 0 THEN f.ty.subs[f.idx] ELSE TyIgnored
    ELSE SubTy(f.ty, 2)
VariantIdentTy(f) == TyIdent(f.ty.fields, TRUE)

\* The frame of visitor method out.m just invoked, under the frame of the
\* decoder method that will check the terminator.
VisitorFrames(vty, out) ==
    (IF out.h = "" THEN <<>>
     ELSE << [Frame(out.h, "after", vty) EXCEPT !.end = out.end] >>)
    \o << [Frame(out.m, "start", vty) EXCEPT
              !.len = out.len, !.sep = out.sep, !.end = out.end, !.sub = out.sub,
              !.variant = IF out.sub = "EnumMapVisitor" THEN <<out.s>> ELSE <<>>] >>

VARIABLES
    tokens,     \* Deserializer.tokens: the slice not yet consumed
    stack,      \* the calls in progress, the innermost last
    ret,        \* the Result of the call that returned last
    consumed,   \* history: the tokens next_token has returned
    log,        \* history: the visitor methods invoked
    last,       \* history: the method that took the last step
    harness,    \* the assertion of assert.rs that runs the decode, if any
    sc          \* the decode under way: type, token list, encoded value

vars == << tokens, stack, ret, consumed, log, last, harness, sc >>

Top == stack[Len(stack)]
Below == SubSeq(stack, 1, Len(stack) - 1)
Running(fn, pc) == stack # <<>> /\ Top.fn = fn /\ Top.pc = pc
\* The calling frame, left waiting for the Result.
Waiting(pc) == Append(Below, [Top EXCEPT !.pc = pc])
LogEntry(vty, out) == [m |-> out.m, t |-> vty.t, s |-> out.s, i |-> out.i]

\* Decoder method fn acts on its decision: it takes out.n tokens, then
\* returns, or calls on (visitor vty, seed type seedTy) above frames base.
Resolve(fn, base, vty, seedTy, out) ==
    LET r == next_token(tokens)
        who == IF out.k = "seed_str" THEN seedTy ELSE vty
        invoked == out.k \in {"call", "seed_str"}
    IN  /\ tokens' = IF out.n = 1 THEN r.rest ELSE tokens
        /\ consumed' = IF out.n = 1 THEN Append(consumed, r.tok) ELSE consumed
        /\ stack' =
              CASE out.k = "generic" -> Append(base, Frame("deserialize", "start", vty))
                [] out.k = "seed" -> Append(base, CallFrame(seedTy))
                [] invoked /\ out.m \notin Immediate -> base \o VisitorFrames(who, out)
                [] OTHER -> base
        /\ ret' =
              CASE out.k = "err" -> Fail(out.err)
                [] out.k = "ok" -> Ok(UnitVal)
                [] out.k = "none" -> Ok(NoMore)
                [] invoked /\ out.m \in Immediate ->
                      VisitImmediate(who, out.m, out.s, out.i)
                [] OTHER -> NoRet
        /\ log' = IF invoked THEN Append(log, LogEntry(who, out)) ELSE log
        /\ last' = fn
        /\ UNCHANGED << harness, sc >>

\* ------------------------------------------------- the decoder's methods
DeserializeAny ==
    /\ Running("deserialize", "start")
    /\ Resolve("deserialize", Below, Top.ty, Top.ty, deserialize(tokens))

DeserializeOption ==
    /\ Running("deserialize_option", "start")
    /\ Resolve("deserialize_option", Below, Top.ty, Top.ty, deserialize_option(tokens))

DeserializeEnum ==
    /\ Running("deserialize_enum", "start")
    /\ Resolve("deserialize_enum", Below, Top.ty, Top.ty, deserialize_enum(tokens, Top.ty.name))

DeserializeUnitStruct ==
    /\ Running("deserialize_unit_struct", "start")
    /\ Resolve("deserialize_unit_struct", Below, Top.ty, Top.ty, deserialize_unit_struct(tokens, Top.ty.name))

DeserializeNewtypeStruct ==
    /\ Running("deserialize_newtype_struct", "start")
    /\ Resolve("deserialize_newtype_struct", Below, Top.ty, Top.ty,
               deserialize_newtype_struct(tokens, Top.ty.name))

DeserializeSeqFixedSize ==
    /\ Running("deserialize_seq_fixed_size", "start")
    /\ Resolve("deserialize_seq_fixed_size", Below, Top.ty, Top.ty,
               deserialize_seq_fixed_size(tokens, Len(Top.ty.subs)))

DeserializeTuple ==
    /\ Running("deserialize_tuple", "start")
    /\ Resolve("deserialize_tuple", Below, Top.ty, Top.ty, deserialize_tuple(tokens, Len(Top.ty.subs)))

DeserializeTupleStruct ==
    /\ Running("deserialize_tuple_struct", "start")
    /\ Resolve("deserialize_tuple_struct", Below, Top.ty, Top.ty,
               deserialize_tuple_struct(tokens, Top.ty.name, Len(Top.ty.subs)))

DeserializeStruct ==
    /\ Running("deserialize_struct", "start")
    /\ Resolve("deserialize_struct", Below, Top.ty, Top.ty,
               deserialize_struct(tokens, Top.ty.name, Len(Top.ty.fields)))

\* AfterVisitor without the try! on the visitor's Result: the terminator is
\* expected even after a failed visitor (C16 tells it from AfterVisitor).
AfterVisitor_no_try ==
    LET e == expect_token(tokens, Top.end)
    IN  /\ ret.st # "none"
        /\ stack' = Below
        /\ tokens' = e.rest
        /\ consumed' = IF tokens # <<>>
                       THEN Append(consumed, next_token(tokens).tok)
                       ELSE consumed
        /\ ret' = IF ret.st = "err" \/ e.res.st = "ok" THEN ret ELSE e.res
        /\ last' = "expect_token"
        /\ UNCHANGED << log, harness, sc >>

\* AfterVisitor that pulls the terminator off when it is there and returns
\* the visitor's value when it is not (C19 tells it from AfterVisitor).
AfterVisitor_lenient ==
    /\ ret.st # "none"
    /\ stack' = Below
    /\ IF ret.st = "ok" /\ first(tokens) = Top.end
       THEN /\ tokens' = Tail(tokens)
            /\ consumed' = Append(consumed, Head(tokens))
       ELSE UNCHANGED << tokens, consumed >>
    /\ last' = IF ret.st = "err" THEN Top.fn ELSE "expect_token"
    /\ UNCHANGED << ret, log, harness, sc >>

\* let value = try!(visitor.visit_..(..)); try!(self.expect_token(end)); Ok(value)
AfterVisitor ==
    LET e == expect_token(tokens, Top.end)
    IN  /\ ret.st # "none"
        /\ stack' = Below
        /\ IF ret.st = "err"
           THEN UNCHANGED << tokens, consumed, ret >>
           ELSE /\ tokens' = e.rest
                /\ consumed' = IF tokens # <<>>
                               THEN Append(consumed, next_token(tokens).tok)
                               ELSE consumed
                /\ ret' = IF e.res.st = "ok" THEN ret ELSE e.res
        /\ last' = IF ret.st = "err" THEN Top.fn ELSE "expect_token"
        /\ UNCHANGED << log, harness, sc >>

\* Deserializer::visit_seq, once the visitor has returned.
VisitSeq == Running("Deserializer::visit_seq", "after") /\ AfterVisitor

\* Deserializer::visit_map, once the visitor has returned.
VisitMap == Running("Deserializer::visit_map", "after") /\ AfterVisitor

\* EnumMapVisitor::visit_value_seed, once the seed has returned.
EnumMapValueEnd ==
    Running("EnumMapVisitor::visit_value_seed", "after") /\ AfterVisitor

SeqVisitorVisitSeed ==
    /\ Running("visit_seq", "req")
    /\ LET o == visit_seed(tokens, Top.len, Top.sep, Top.end)
       IN  Resolve("visit_seed", Append(Below, [Top EXCEPT !.pc = "wait",
                                    !.len = IF o.k = "seed" THEN o.len ELSE @]),
                   Top.ty, ElemTy(Top), o)

MapVisitorVisitKeySeed ==
    /\ Running("visit_map", "req")
    /\ Top.sub = "DeserializerMapVisitor"
    /\ LET o == visit_key_seed(tokens, Top.len, Top.sep, Top.end)
       IN  Resolve("visit_key_seed", Append(Below, [Top EXCEPT !.pc = "wait_key",
                                    !.len = IF o.k = "seed" THEN o.len ELSE @]),
                   Top.ty, KeyTy(Top), o)

MapVisitorVisitValueSeed ==
    /\ Running("visit_map", "value")
    /\ Top.sub = "DeserializerMapVisitor"
    /\ Resolve("visit_value_seed", Waiting("wait_value"), Top.ty, ValueTy(Top), visit_value_seed(tokens))

EnumMapVisitorVisitKeySeed ==
    /\ Running("visit_map", "req")
    /\ Top.sub = "EnumMapVisitor"
    /\ Resolve("EnumMapVisitor::visit_key_seed", Append(Below, [Top EXCEPT !.pc = "wait_key", !.variant = <<>>]),
               Top.ty, KeyTy(Top), EnumMapVisitor_visit_key_seed(Top.variant))

EnumMapVisitorVisitValueSeed ==
    /\ Running("visit_map", "value")
    /\ Top.sub = "EnumMapVisitor"
    /\ Resolve("EnumMapVisitor::visit_value_seed", Waiting("wait_value"), ValueTy(Top), ValueTy(Top),
               EnumMapVisitor_visit_value_seed(tokens))

VisitVariantSeed ==
    /\ Running("visit_enum", "req")
    /\ Resolve("visit_variant_seed", Waiting("wait_variant"), Top.ty, VariantIdentTy(Top),
               visit_variant_seed(tokens))

\* The variant the visitor of the enum has selected.
Variant == Top.ty.subs[Top.idx]

VisitUnit ==
    /\ Running("visit_enum", "shape")
    /\ Variant.t = "VUnit"
    /\ Resolve("visit_unit", Waiting("wait_shape"), TyUnit, TyUnit, visit_unit(tokens))

VisitNewtypeSeed ==
    /\ Running("visit_enum", "shape")
    /\ Variant.t = "VNewtype"
    /\ Resolve("visit_newtype_seed", Waiting("wait_shape"), Variant, Variant.subs[1],
               visit_newtype_seed(tokens))

VisitTuple ==
    /\ Running("visit_enum", "shape")
    /\ Variant.t = "VTuple"
    /\ Resolve("visit_tuple", Waiting("wait_shape"), Variant, Variant,
               visit_tuple(tokens, Len(Variant.subs)))

VisitStruct ==
    /\ Running("visit_enum", "shape")
    /\ Variant.t = "VStruct"
    /\ Resolve("visit_struct", Waiting("wait_shape"), Variant, Variant,
               visit_struct(tokens, Len(Variant.fields)))

\* --------------------------------------------------- the visitors' steps
VisitorFns == {"visit_some", "visit_newtype_struct", "visit_seq", "visit_map",
               "visit_enum"}
Return(res) == [st |-> Below, r |-> res]
Cont(f) == [st |-> Append(Below, f), r |-> NoRet]
Call(f, ty) == [st |-> Below \o << f, CallFrame(ty) >>, r |-> NoRet]

\* A visitor method is entered: it rejects the visit, or makes its first request.
VisitorEnter(f) ==
    CASE ~Accepts(f.ty, f.fn) -> Return(InvalidType)
      [] f.fn \in {"visit_some", "visit_newtype_struct"} ->
            Call([f EXCEPT !.pc = "wait"], SubTy(f.ty, 1))
      [] f.fn = "visit_seq" /\ f.ty.t \in FixedSeq /\ f.ty.subs = <<>> ->
            Return(Ok(Build(f.ty, <<>>)))
      [] f.fn = "visit_map" /\ f.ty.t \in {"Struct", "VStruct"} ->
            Cont([f EXCEPT !.pc = "req",
                           !.acc = [j \in 1..Len(f.ty.subs) |-> Missing]])
      [] OTHER -> Cont([f EXCEPT !.pc = "req"])

\* The struct visitor has seen the last key.
FinishStruct(f) ==
    IF \E j \in 1..Len(f.acc) : f.acc[j] = Missing /\ f.ty.subs[j].t # "Option"
    THEN Fail(Message("missing field"))
    ELSE Ok(Build(f.ty, [j \in 1..Len(f.acc) |->
                            IF f.acc[j] = Missing THEN OptNone ELSE f.acc[j]]))

\* A visitor method receives Ok(v) from the request it made.
VisitorNext(f, v) ==
    CASE f.ty.t = "Ignored" ->
            IF f.fn \in {"visit_some", "visit_newtype_struct"} \/ v = NoMore
            THEN Return(Ok(IgnoredVal))
            ELSE Cont([f EXCEPT !.pc = IF f.pc = "wait_key" THEN "value" ELSE "req"])
      [] f.fn = "visit_some" -> Return(Ok(OptSome(v)))
      [] f.fn = "visit_newtype_struct" -> Return(Ok(Build(f.ty, <<v>>)))
      [] f.fn = "visit_seq" ->
            IF v = NoMore
            THEN IF f.ty.t \in FixedSeq THEN Return(Fail(Message("invalid length")))
                 ELSE Return(Ok(Build(f.ty, f.acc)))
            ELSE IF f.ty.t \in FixedSeq /\ Len(f.acc) + 1 = Len(f.ty.subs)
                 THEN Return(Ok(Build(f.ty, Append(f.acc, v))))
                 ELSE Cont([f EXCEPT !.pc = "req", !.acc = Append(@, v)])
      [] f.fn = "visit_map" /\ f.pc = "wait_key" /\ f.ty.t = "Map" ->
            IF v = NoMore THEN Return(Ok(Build(f.ty, f.acc)))
            ELSE Cont([f EXCEPT !.pc = "value", !.acc = Append(@, v)])
      [] f.fn = "visit_map" /\ f.pc = "wait_key" /\ f.ty.t # "Map" ->
            IF v = NoMore THEN Return(FinishStruct(f))
            ELSE IF v.i > 0 /\ f.acc[v.i] # Missing
                 THEN Return(Fail(Message("duplicate field")))
                 ELSE Cont([f EXCEPT !.pc = "value", !.idx = v.i])
      [] f.fn = "visit_map" /\ f.pc = "wait_value" /\ f.ty.t = "Map" ->
            Cont([f EXCEPT !.pc = "req", !.acc = Append(@, v)])
      [] f.fn = "visit_map" /\ f.pc = "wait_value" /\ f.ty.t # "Map" ->
            Cont([f EXCEPT !.pc = "req",
                           !.acc = IF f.idx > 0 THEN [@ EXCEPT ![f.idx] = v] ELSE @])
      [] f.fn = "visit_enum" /\ f.pc = "wait_variant" ->
            Cont([f EXCEPT !.pc = "shape", !.idx = v.i])
      [] f.fn = "visit_enum" /\ f.pc = "wait_shape" ->
            Return(Ok(Val("Enum", f.ty.fields[f.idx], 0,
                          IF f.ty.subs[f.idx].t = "VUnit" THEN <<>> ELSE <<v>>)))

VisitorStart ==
    /\ stack # <<>>
    /\ Top.fn \in VisitorFns
    /\ Top.pc = "start"
    /\ stack' = VisitorEnter(Top).st
    /\ ret' = VisitorEnter(Top).r
    /\ last' = "visitor"
    /\ UNCHANGED << tokens, consumed, log, harness, sc >>

VisitorResume ==
    /\ stack # <<>>
    /\ Top.fn \in VisitorFns
    /\ Top.pc \in {"wait", "wait_key", "wait_value", "wait_variant", "wait_shape"}
    /\ ret.st = "ok"
    /\ stack' = VisitorNext(Top, ret.val).st
    /\ ret' = VisitorNext(Top, ret.val).r
    /\ last' = "visitor"
    /\ UNCHANGED << tokens, consumed, log, harness, sc >>

\* try!: the visitor hands the error of its request on.
VisitorPropagate ==
    /\ stack # <<>>
    /\ Top.fn \in VisitorFns
    /\ ret.st = "err"
    /\ stack' = Below
    /\ last' = "visitor"
    /\ UNCHANGED << tokens, ret, consumed, log, harness, sc >>

\* ------------------------------------------------------- the token lists
Wrap(start, sep, end, tys, vs) == <<start>> \o EncElems(sep, tys, vs, 1) \o <<end>>

\* Other token lists the decoder is to accept for value v of type ty: the
\* coercions, the EnumStart wrapper, and the struct without separators of
\* the example of assert_tokens.
AltEncodings(ty, v) ==
    CASE ty.t = "Option" ->
            IF v.s = "None" THEN {<<TUnit>>} ELSE {Encode(ty.subs[1], v.c[1])}
      [] ty.t = "UnitStruct" -> {<<TUnit>>}
      [] ty.t = "Array" -> {Wrap(TSeqStart(Len(v.c)), TSeqSep, TSeqEnd, ty.subs, v.c)}
      [] ty.t = "Tuple" ->
            {Wrap(TSeqStart(Len(v.c)), TSeqSep, TSeqEnd, ty.subs, v.c),
             Wrap(TTupleStructStart("S", Len(v.c)), TTupleStructSep,
                  TTupleStructEnd, ty.subs, v.c)}
      [] ty.t = "TupleStruct" ->
            {Wrap(TSeqArrayStart(Len(v.c)), TSeqSep, TSeqEnd, ty.subs, v.c),
             Wrap(TTupleStart(Len(v.c)), TTupleSep, TTupleEnd, ty.subs, v.c)}
      [] ty.t = "Struct" ->
            {<<TMapStart(Len(v.c))>> \o EncEntries(<<TMapSep>>, ty, v.c, 1)
                \o <<TMapEnd>>,
             <<TStructStart(ty.name, Len(v.c))>> \o EncEntries(<<>>, ty, v.c, 1)
                \o <<TStructEnd>>}
      [] ty.t = "Enum" ->
            LET vt == VariantTy(ty, v.s)
            IN  {<<TEnumStart(ty.name)>> \o Encode(ty, v),
                 <<TEnumStart(ty.name), TStr(v.s)>> \o
                    (CASE vt.t = "VUnit" -> <<TUnit>>
                       [] vt.t = "VNewtype" -> Encode(vt.subs[1], v.c[1])
                       [] vt.t = "VTuple" ->
                             Wrap(TSeqStart(Len(vt.subs)), TSeqSep, TSeqEnd,
                                  vt.subs, v.c[1].c)
                       [] vt.t = "VStruct" ->
                             <<TMapStart(Len(vt.subs))>>
                             \o EncEntries(<<TMapSep>>, vt, v.c[1].c, 1)
                             \o <<TMapEnd>>)}
      [] OTHER -> {}

EnumNames == {"E", "F"}
StructNames == {"S", "T"}
Lens == {MaxLen, MaxLen + 1}
\* The tokens a list is perturbed with.
Alphabet ==
    {TBool(1), TU8(0), TStr("a"), TStr("x"), TStr("Vu"), TUnit, TOption(0),
     TOption(1), TSeqSep, TSeqEnd, TTupleSep, TTupleEnd, TTupleStructSep,
     TTupleStructEnd, TMapSep, TMapEnd, TStructSep, TStructEnd, TEnumSeqSep,
     TEnumSeqEnd, TEnumMapSep, TEnumMapEnd, TSeqStart(NoLen), TMapStart(NoLen),
     TEnumMapStart("E", "Vz", 0)}
    \cup {TUnitStruct(n) : n \in StructNames}
    \cup {TStructNewType(n) : n \in StructNames}
    \cup {TEnumStart(n) : n \in EnumNames}
    \cup {TEnumUnit(n, "Vu") : n \in EnumNames}
    \cup {TEnumNewType(n, "Vn") : n \in EnumNames}
    \cup {TSeqStart(l) : l \in Lens} \cup {TSeqArrayStart(l) : l \in Lens}
    \cup {TTupleStart(l) : l \in Lens} \cup {TMapStart(l) : l \in Lens}
    \cup {TTupleStructStart(n, l) : n \in StructNames, l \in Lens}
    \cup {TStructStart(n, l) : n \in StructNames, l \in Lens}
    \cup {TEnumSeqStart(n, "Vt", l) : n \in EnumNames, l \in Lens}
    \cup {TEnumMapStart(n, "Vs", l) : n \in EnumNames, l \in Lens}

\* toks with one token or two adjacent tokens dropped, cut short, or
\* followed by one more token.
Damaged(toks) ==
    {SubSeq(toks, 1, j - 1) \o SubSeq(toks, j + 1, Len(toks)) : j \in 1..Len(toks)}
    \cup {SubSeq(toks, 1, j - 1) \o SubSeq(toks, j + 2, Len(toks)) : j \in 1..(Len(toks) - 1)}
    \cup {SubSeq(toks, 1, j) : j \in 0..Len(toks)}
    \cup {Append(toks, TUnit)}

\* toks with one token replaced, or damaged.
Perturbed(toks) ==
    {[toks EXCEPT ![j] = a] : j \in 1..Len(toks), a \in Alphabet}
    \cup Damaged(toks)

Scenario(ty, toks, val, kind) == [ty |-> ty, toks |-> toks, val |-> val, kind |-> kind]
\* The decodes of sample k of type ty: of its encoding, of the coerced
\* lists, of these lists perturbed, and of all of them by a visitor that
\* accepts anything (IgnoredAny).
ScenariosOf(ty, k) ==
    LET v == Sample(ty, k)
        enc == Encode(ty, v)
        alt == AltEncodings(ty, v)
        bad == IF k < NumPerturbed THEN UNION {Perturbed(l) : l \in {enc} \cup alt}
               ELSE {}
    IN  {Scenario(ty, enc, v, "encoded"), Scenario(TyIgnored, enc, NoVal, "untyped")}
        \cup {Scenario(ty, l, v, "coerced") : l \in alt}
        \cup {Scenario(TyIgnored, l, NoVal, "untyped") : l \in alt}
        \cup {Scenario(ty, l, NoVal, "perturbed") : l \in bad \ ({enc} \cup alt)}

\* The examples of assert.rs: the struct S { a: u8, b: u8 } of the doc
\* comments, its token list as written there, and the list of the error
\* example, with and without the StructSep tokens this decoder asks for.
U8Val(x) == Val("U8", "", x, <<>>)
ExampleS == TyStruct("S", <<"a", "b">>, <<TyU8, TyU8>>, FALSE)
ExampleSDeny == TyStruct("S", <<"a", "b">>, <<TyU8, TyU8>>, TRUE)
ExampleATokens ==
    << TStructStart("S", 2), TStr("a"), TU8(0), TStr("b"), TU8(0), TStructEnd >>
ExampleBTokens == << TStructStart("S", 2), TStr("x") >>
Examples ==
    {Scenario(ExampleS, ExampleATokens, Build(ExampleS, <<U8Val(0), U8Val(0)>>),
              "exampleA"),
     Scenario(ExampleS, Encode(ExampleS, Build(ExampleS, <<U8Val(0), U8Val(0)>>)),
              Build(ExampleS, <<U8Val(0), U8Val(0)>>), "encoded"),
     Scenario(ExampleSDeny, ExampleBTokens, NoVal, "exampleB"),
     Scenario(ExampleSDeny, << TStructStart("S", 2), TStructSep, TStr("x") >>,
              NoVal, "exampleB")}

\* The separator/terminator pairs of the sequence and of the map flavors.
SeqPairs ==
    {<<TSeqSep, TSeqEnd>>, <<TTupleSep, TTupleEnd>>,
     <<TTupleStructSep, TTupleStructEnd>>, <<TEnumSeqSep, TEnumSeqEnd>>}
MapPairs ==
    {<<TMapSep, TMapEnd>>, <<TStructSep, TStructEnd>>, <<TEnumMapSep, TEnumMapEnd>>}
\* The start tokens of the sequence and of the map flavors, declaring n.
SeqStarts(n) ==
    {TSeqStart(n), TSeqArrayStart(n), TTupleStart(n), TTupleStructStart("S", n),
     TEnumSeqStart("E", "Vt", n)}
MapStarts(n) ==
    {TMapStart(n), TStructStart("S", n), TEnumMapStart("E", "Vs", n)}
\* The decodes of a body of 0 or MaxLen elements or entries written with
\* one pair under the start token of every flavor, by the visitors that
\* take a sequence or a map.
Paired ==
    LET vs(n) == [i \in 1..n |-> U8Val(i % (MaxU8 + 1))]
        starts == UNION {SeqStarts(n) \cup MapStarts(n) : n \in {0, MaxLen}}
        bodies ==
            {EncElems(p[1], <<TyU8>>, vs(n), 1) \o <<p[2]>> :
                p \in SeqPairs, n \in {0, MaxLen}}
            \cup {EncEntries(<<p[1]>>, StructS, vs(n), 1) \o <<p[2]>> :
                p \in MapPairs, n \in {0, MaxLen}}
        types == {TyIgnored, TySeq(TyU8), TyArray(U8s(MaxLen)), TyTuple(U8s(MaxLen)),
                  TyTupleStruct("S", U8s(MaxLen)), TyMap(TyStr, TyU8), StructS, EnumE}
    IN  {Scenario(ty, <<st>> \o b, NoVal, "paired") :
            ty \in types, st \in starts, b \in bodies}

\* ------------------------------------------------------- the specification
\* The harness record: fn, the assertion; pc, where it stands; value and
\* error, its arguments; impl, the deserialize_in_place of T; in_place, the
\* target of the in-place decode; verdict, "pass" or the panic.
Harness(fn, pc, value, error, impl) ==
    [fn |-> fn, pc |-> pc, value |-> value, error |-> error, impl |-> impl,
     in_place |-> NoVal, verdict |-> ""]
NoHarness == Harness("", "", NoVal, "", "")

\* T::deserialize(&mut Deserializer::new(tokens))
Init ==
    /\ \/ \E ty \in Types \ {TyIgnored}, k \in 0..(NumSamples - 1) :
             sc \in ScenariosOf(ty, k)
       \/ sc \in Examples
       \/ sc \in Paired
    /\ tokens = sc.toks
    /\ stack = << CallFrame(sc.ty) >>
    /\ ret = NoRet
    /\ consumed = <<>>
    /\ log = <<>>
    /\ last = "new"
    /\ harness = NoHarness

Next ==
    \/ DeserializeAny
    \/ DeserializeOption
    \/ DeserializeEnum
    \/ DeserializeUnitStruct
    \/ DeserializeNewtypeStruct
    \/ DeserializeSeqFixedSize
    \/ DeserializeTuple
    \/ DeserializeTupleStruct
    \/ DeserializeStruct
    \/ VisitSeq
    \/ VisitMap
    \/ EnumMapValueEnd
    \/ SeqVisitorVisitSeed
    \/ MapVisitorVisitKeySeed
    \/ MapVisitorVisitValueSeed
    \/ EnumMapVisitorVisitKeySeed
    \/ EnumMapVisitorVisitValueSeed
    \/ VisitVariantSeed
    \/ VisitUnit
    \/ VisitNewtypeSeed
    \/ VisitTuple
    \/ VisitStruct
    \/ VisitorStart
    \/ VisitorResume
    \/ VisitorPropagate

Spec == Init /\ [][Next]_vars

\* The top-level decode call has returned.
Done == stack = <<>>
\* -------------------------------------------------- the assertion harness
\* Deserializer::remaining: the number of tokens not yet consumed.
remaining(toks) == Len(toks)

\* Deserializer::next_token_opt: consume one token if there is one.
next_token_opt(toks) ==
    IF toks = <<>> THEN [tok |-> NoTok, rest |-> <<>>]
    ELSE [tok |-> toks[1], rest |-> SubSeq(toks, 2, Len(toks))]

\* The rendering of an error, which the harness compares with a message.
Render(e) ==
    CASE e.e = "Message" -> e.name
      [] e.e = "InvalidName" -> "invalid name"
      [] e.e = "UnexpectedToken" -> "unexpected token"
      [] e.e = "EndOfTokens" -> "end of tokens"
      [] OTHER -> ""

\* The implementations of T::deserialize_in_place the harness may meet:
\* "assign" decodes a T and stores it in place (the default); "keep"
\* decodes a T and leaves place as it was; "noop" returns Ok(()) at once.
Impls == {"assign", "keep", "noop"}
\* place after a successful T::deserialize_in_place that decoded res.
deserialize_in_place(impl, res, place) ==
    IF impl = "assign" THEN res.val ELSE place

\* The target handed to the in-place decode: the value the fresh decode
\* returned; and a target unrelated to it (C14 tells them apart).
unrelated_target(res) == NoVal
seed_in_place(res) == res.val

\* internal_assert_de_tokens once T::deserialize has returned res: the
\* panic, "" when it returns the value.
internal_assert_de_tokens(res, value, toks) ==
    IF res.st = "err" THEN "tokens failed to deserialize"
    ELSE IF res.val # value THEN "assertion failed: v == value"
    ELSE IF remaining(toks) > 0 THEN "remaining tokens"
    ELSE ""

\* internal_assert_de_in_place_tokens without the test of remaining()
\* (C13 tells it from internal_assert_de_in_place_tokens).
in_place_no_remaining(res, in_place, value, toks) ==
    IF res.st = "err" THEN "tokens failed to deserialize_in_place"
    ELSE IF in_place # value THEN "assertion failed: in_place == value"
    ELSE ""

\* internal_assert_de_in_place_tokens once T::deserialize_in_place has
\* returned res and left in_place: the panic, "" when it returns.
internal_assert_de_in_place_tokens(res, in_place, value, toks) ==
    IF res.st = "err" THEN "tokens failed to deserialize_in_place"
    ELSE IF in_place # value THEN "assertion failed: in_place == value"
    ELSE IF remaining(toks) > 0 THEN "remaining tokens"
    ELSE ""

\* assert_de_tokens_error without the call of next_token_opt (C15 tells it
\* from assert_de_tokens_error).
assert_de_tokens_error_no_opt(res, error, toks) ==
    IF res.st = "ok" THEN "tokens deserialized successfully"
    ELSE IF Render(res.err) # error THEN "assertion failed: e == error"
    ELSE IF remaining(toks) > 0 THEN "remaining tokens"
    ELSE ""

\* assert_de_tokens_error once T::deserialize has returned res: the panic,
\* "" when it returns.
assert_de_tokens_error(res, error, toks) ==
    IF res.st = "ok" THEN "tokens deserialized successfully"
    ELSE IF Render(res.err) # error THEN "assertion failed: e == error"
    ELSE IF remaining(next_token_opt(toks).rest) > 0 THEN "remaining tokens"
    ELSE ""

\* assert_de_tokens: the checks of internal_assert_de_tokens on the fresh
\* decode, then the in-place decode on a Deserializer of its own, its
\* target being the value the fresh decode returned.
InternalAssertDeTokens ==
    /\ harness.fn = "assert_de_tokens" /\ harness.pc = "fresh"
    /\ stack = <<>> /\ ret.st # "none"
    /\ LET p == internal_assert_de_tokens(ret, harness.value, tokens)
       IN  IF p # ""
           THEN /\ harness' = [harness EXCEPT !.pc = "done", !.verdict = p]
                /\ UNCHANGED << tokens, stack, ret, consumed >>
           ELSE /\ harness' = [harness EXCEPT !.pc = "in_place",
                                              !.in_place = seed_in_place(ret)]
                /\ tokens' = sc.toks
                /\ consumed' = <<>>
                /\ stack' = IF harness.impl = "noop" THEN <<>>
                            ELSE << CallFrame(sc.ty) >>
                /\ ret' = IF harness.impl = "noop" THEN Ok(UnitVal) ELSE NoRet
    /\ last' = "internal_assert_de_tokens"
    /\ UNCHANGED << log, sc >>

\* internal_assert_de_in_place_tokens, once the in-place decode has returned.
InternalAssertDeInPlaceTokens ==
    /\ harness.fn = "assert_de_tokens" /\ harness.pc = "in_place"
    /\ stack = <<>> /\ ret.st # "none"
    /\ LET place == IF ret.st = "ok"
                    THEN deserialize_in_place(harness.impl, ret, harness.in_place)
                    ELSE harness.in_place
           p == internal_assert_de_in_place_tokens(ret, place, harness.value, tokens)
       IN  harness' = [harness EXCEPT !.pc = "done", !.in_place = place,
                                      !.verdict = IF p = "" THEN "pass" ELSE p]
    /\ last' = "internal_assert_de_in_place_tokens"
    /\ UNCHANGED << tokens, stack, ret, consumed, log, sc >>

\* assert_de_tokens_error, once the decode has returned.
AssertDeTokensError ==
    /\ harness.fn = "assert_de_tokens_error" /\ harness.pc = "decode"
    /\ stack = <<>> /\ ret.st # "none"
    /\ LET p == assert_de_tokens_error(ret, harness.error, tokens)
           matched == ret.st = "err" /\ Render(ret.err) = harness.error
       IN  /\ harness' = [harness EXCEPT !.pc = "done",
                                         !.verdict = IF p = "" THEN "pass" ELSE p]
           /\ tokens' = IF matched THEN next_token_opt(tokens).rest ELSE tokens
           /\ consumed' = IF matched /\ tokens # <<>>
                          THEN Append(consumed, next_token_opt(tokens).tok)
                          ELSE consumed
    /\ last' = "assert_de_tokens_error"
    /\ UNCHANGED << stack, ret, log, sc >>

\* The messages assert_de_tokens_error is called with.
Messages == {"unknown field", "invalid length", "unexpected token", "end of tokens"}
\* The values assert_de_tokens is called with for the decode s.
ExpectedValues(s) ==
    IF s.ty = TyIgnored THEN {IgnoredVal}
    ELSE {Sample(s.ty, j) : j \in 0..(NumExpected - 1)}
         \cup (IF s.val # NoVal THEN {s.val} ELSE {})
Harnesses(s) ==
    {Harness("assert_de_tokens", "fresh", v, "", i) :
        v \in ExpectedValues(s), i \in Impls}
    \cup {Harness("assert_de_tokens_error", "decode", NoVal, m, "") : m \in Messages}

\* The decodes the assertions are run on: sample k of type ty encoded,
\* coerced, and these lists damaged.
AssertScenariosOf(ty, k) ==
    LET v == Sample(ty, k)
        good == {Encode(ty, v)} \cup AltEncodings(ty, v)
        bad == UNION {Damaged(l) : l \in good}
    IN  {Scenario(ty, l, v, "encoded") : l \in {Encode(ty, v)}}
        \cup {Scenario(ty, l, v, "coerced") : l \in good \ {Encode(ty, v)}}
        \cup {Scenario(ty, l, NoVal, "perturbed") : l \in bad \ good}
        \cup {Scenario(TyIgnored, l, NoVal, "untyped") : l \in good}

\* assert_de_tokens(&value, tokens) and assert_de_tokens_error::<T>(tokens, error)
InitAssert ==
    /\ \/ \E ty \in Types \ {TyIgnored}, k \in 0..(NumSamples - 1) :
             sc \in AssertScenariosOf(ty, k)
       \/ sc \in Examples
    /\ harness \in Harnesses(sc)
    /\ tokens = sc.toks
    /\ stack = << CallFrame(sc.ty) >>
    /\ ret = NoRet
    /\ consumed = <<>>
    /\ log = <<>>
    /\ last = "new"

NextAssert ==
    \/ Next
    \/ InternalAssertDeTokens
    \/ InternalAssertDeInPlaceTokens
    \/ AssertDeTokensError

AssertSpec == InitAssert /\ [][NextAssert]_vars

\* ------------------------------------------ the declared length of a list
\* The lengths a SeqStart or MapStart declares: None, 0, and lengths below
\* and above the number of elements that follow.
DeclaredLens == {NoLen} \cup 0..(MaxLen + 1)
\* The positions of toks that hold a SeqStart or MapStart.
ListStarts(toks) == {j \in 1..Len(toks) : toks[j].k \in {"SeqStart", "MapStart"}}
\* toks with the length declared at position j set to len.
Redeclare(toks, j, len) == [toks EXCEPT ![j] = [@ EXCEPT !.i = len]]

\* Two decodes of one list by one visitor, the second with the length at
\* position `at` redeclared as len; ret, log and n are the Result, the
\* visitor calls and the number of tokens consumed of the first decode.
Redeclared(pc, at, len) ==
    [fn |-> "redeclared", pc |-> pc, at |-> at, len |-> len,
     ret |-> NoRet, log |-> <<>>, n |-> 0]

\* T::deserialize(&mut Deserializer::new(tokens)) on the redeclared list,
\* once the decode of the list as given has returned.
Redecode ==
    /\ harness.fn = "redeclared" /\ harness.pc = "first"
    /\ stack = <<>> /\ ret.st # "none"
    /\ harness' = [harness EXCEPT !.pc = "second", !.ret = ret, !.log = log,
                                  !.n = Len(consumed)]
    /\ tokens' = Redeclare(sc.toks, harness.at, harness.len)
    /\ stack' = << CallFrame(sc.ty) >>
    /\ ret' = NoRet
    /\ consumed' = <<>>
    /\ log' = <<>>
    /\ last' = "new"
    /\ UNCHANGED sc

InitLen ==
    /\ \/ \E ty \in Types \ {TyIgnored}, k \in 0..(NumSamples - 1) :
             sc \in AssertScenariosOf(ty, k)
       \/ sc \in Examples
    /\ harness \in IF ListStarts(sc.toks) = {} THEN {NoHarness}
                   ELSE {Redeclared("first", j, l) :
                            j \in ListStarts(sc.toks), l \in DeclaredLens}
    /\ harness.fn = "redeclared" => harness.len # sc.toks[harness.at].i
    /\ tokens = sc.toks
    /\ stack = << CallFrame(sc.ty) >>
    /\ ret = NoRet
    /\ consumed = <<>>
    /\ log = <<>>
    /\ last = "new"

NextLen ==
    \/ Next
    \/ Redecode

LenSpec == InitLen /\ [][NextLen]_vars

\* ------------------------------------------------------------ termination
\* A decode is one sequential call: it takes its next step as long as it
\* has one.
InitLive ==
    /\ \/ \E ty \in Types \ {TyIgnored}, k \in 0..(NumSamples - 1) :
             sc \in AssertScenariosOf(ty, k)
       \/ sc \in Examples
       \/ sc \in Paired
    /\ tokens = sc.toks
    /\ stack = << CallFrame(sc.ty) >>
    /\ ret = NoRet
    /\ consumed = <<>>
    /\ log = <<>>
    /\ last = "new"
    /\ harness = NoHarness

LiveSpec == InitLive /\ [][Next]_vars /\ WF_vars(Next)

\* ================================================================ claims
\* What the visitors of type t were handed, in order.
DeliveredTo(t) == SelectSeq(log, LAMBDA e : e.t = t)
\* The token the last call of next_token returned.
LastConsumed == consumed[Len(consumed)]
\* The front of the slice, as a slice of at most one token.
Front == IF tokens = <<>> THEN <<>> ELSE << Head(tokens) >>

\* C1: the token list of Example A, [Struct S of 2, Str a, U8 0, Str b,
\* U8 0, StructEnd], decoded as S { a: u8, b: u8 }, succeeds with
\* S { a: 0, b: 0 }: the keys a and b and the values 0 and 0 are delivered
\* in that order and no token is left.
C1_ExampleA ==
    (Done /\ sc.kind = "exampleA") =>
        /\ ret = Ok(sc.val)
        /\ tokens = <<>>
        /\ [j \in 1..Len(DeliveredTo("Ident")) |-> DeliveredTo("Ident")[j].s]
               = <<"a", "b">>
        /\ [j \in 1..Len(DeliveredTo("U8")) |-> DeliveredTo("U8")[j].i]
               = <<0, 0>>

ExpectTokenCalled ==
    /\ stack # <<>> /\ Top.pc = "after" /\ ret.st = "ok"
C3_ExpectToken ==
    [][ExpectTokenCalled =>
          IF tokens = <<>>
          THEN ret' = Fail(EndOfTokens) /\ tokens' = tokens
               /\ consumed' = consumed
          ELSE /\ tokens' = Tail(tokens)
               /\ consumed' = Append(consumed, Head(tokens))
               /\ (Head(tokens) = Top.end) <=> (ret'.st = "ok")
               /\ (Head(tokens) = Top.end) => (ret' = ret)
               /\ (Head(tokens) # Top.end) =>
                     (ret' = Fail(UnexpectedToken(Head(tokens))))]_vars

C3_Witness ==
    /\ last = "expect_token" /\ consumed # <<>>
    /\ ret = Fail(UnexpectedToken(LastConsumed))
    /\ Len(consumed) + Len(tokens) = Len(sc.toks)

\* C4: the remaining tokens are always a suffix of the original list, the
\* tokens before it being the ones consumed, in order; no step restores or
\* reorders a token or changes the list; each step consumes at most the
\* token at the front, and each dispatch decision depends on that token
\* alone.
Decision(toks) ==
    CASE Running("deserialize", "start") -> deserialize(toks)
      [] Running("deserialize_option", "start") -> deserialize_option(toks)
      [] Running("deserialize_enum", "start") ->
            deserialize_enum(toks, Top.ty.name)
      [] Running("deserialize_unit_struct", "start") ->
            deserialize_unit_struct(toks, Top.ty.name)
      [] Running("deserialize_newtype_struct", "start") ->
            deserialize_newtype_struct(toks, Top.ty.name)
      [] Running("deserialize_seq_fixed_size", "start") ->
            deserialize_seq_fixed_size(toks, Len(Top.ty.subs))
      [] Running("deserialize_tuple", "start") ->
            deserialize_tuple(toks, Len(Top.ty.subs))
      [] Running("deserialize_tuple_struct", "start") ->
            deserialize_tuple_struct(toks, Top.ty.name, Len(Top.ty.subs))
      [] Running("deserialize_struct", "start") ->
            deserialize_struct(toks, Top.ty.name, Len(Top.ty.fields))
      [] Running("visit_seq", "req") ->
            visit_seed(toks, Top.len, Top.sep, Top.end)
      [] Running("visit_map", "req") /\ Top.sub = "DeserializerMapVisitor" ->
            visit_key_seed(toks, Top.len, Top.sep, Top.end)
      [] Running("visit_map", "value") /\ Top.sub = "EnumMapVisitor" ->
            EnumMapVisitor_visit_value_seed(toks)
      [] Running("visit_enum", "req") -> visit_variant_seed(toks)
      [] Running("visit_enum", "shape") /\ Variant.t = "VUnit" -> visit_unit(toks)
      [] Running("visit_enum", "shape") /\ Variant.t = "VNewtype" ->
            visit_newtype_seed(toks)
      [] Running("visit_enum", "shape") /\ Variant.t = "VTuple" ->
            visit_tuple(toks, Len(Variant.subs))
      [] Running("visit_enum", "shape") /\ Variant.t = "VStruct" ->
            visit_struct(toks, Len(Variant.fields))
      [] OTHER -> Generic
C4_CursorOrder ==
    [][/\ consumed \o tokens = sc.toks
       /\ consumed' \o tokens' = sc'.toks
       /\ sc' = sc
       /\ \/ tokens' = tokens /\ consumed' = consumed
          \/ /\ tokens # <<>> /\ tokens' = Tail(tokens)
             /\ consumed' = Append(consumed, Head(tokens))
       /\ Decision(tokens) = Decision(Front)]_vars

C4_Witness ==
    /\ Len(consumed) >= 2 /\ Len(tokens) >= 2
    /\ consumed \o tokens = sc.toks
    /\ last = "visit_key_seed"

\* C5: deserialize_option with the cursor at a Unit token or at
\* Option(false) consumes it and hands the visitor "none"; at Option(true)
\* it consumes it and hands the visitor "some", the held value being decoded
\* from the tokens that follow; at any other token it consumes nothing and
\* hands the visitor "some", the value being decoded starting at that same
\* token; at the end of the tokens it fails with EndOfTokens.
OptionCalled == Running("deserialize_option", "start")
HandedSome(toks) ==
    /\ tokens' = toks
    /\ log' = Append(log, [m |-> "visit_some", t |-> "Option", s |-> "", i |-> 0])
    /\ stack' = Append(Below, Frame("visit_some", "start", Top.ty))
    /\ ret' = NoRet
C5_Option ==
    [][OptionCalled =>
          CASE tokens = <<>> ->
                  ret' = Fail(EndOfTokens) /\ tokens' = tokens /\ log' = log
                  /\ stack' = Below
            [] tokens # <<>> /\ Head(tokens) \in {TUnit, TOption(0)} ->
                  /\ tokens' = Tail(tokens)
                  /\ log' = Append(log, [m |-> "visit_none", t |-> "Option",
                                         s |-> "", i |-> 0])
                  /\ ret' = Ok(OptNone) /\ stack' = Below
            [] tokens # <<>> /\ Head(tokens).k = "Option" /\ Head(tokens).i # 0 ->
                  HandedSome(Tail(tokens))
            [] OTHER -> HandedSome(tokens)]_vars
C5_Witness ==
    /\ last = "deserialize_option" /\ consumed = <<>> /\ tokens # <<>>
    /\ Head(tokens).k = "SeqStart"
    /\ Running("visit_some", "start")

\* C6: a declared-length start token, SeqArrayStart(n) under
\* deserialize_seq_fixed_size(len) or TupleStart(n) under
\* deserialize_tuple(len), with n different from len fails with
\* UnexpectedToken carrying that start token.
C6_DeclaredArity ==
    (/\ Done /\ sc.toks # <<>>
     /\ \/ sc.ty.t = "Array" /\ Head(sc.toks).k = "SeqArrayStart"
        \/ sc.ty.t = "Tuple" /\ Head(sc.toks).k = "TupleStart"
     /\ Head(sc.toks).i # Len(sc.ty.subs))
    => ret = Fail(UnexpectedToken(Head(sc.toks)))

\* C7: visit_tuple(len) and visit_struct(fields) of the enum decoder, at
\* EnumSeqStart / EnumMapStart or at SeqStart(Some(n)) / MapStart(Some(n)):
\* when the declared arity differs from the requested one the call consumes
\* exactly that start token, fails with UnexpectedToken carrying it and
\* does not invoke the visitor; when they are equal it goes on with the
\* separator and terminator of that start token's flavor.
SepOf(k) ==
    CASE k = "EnumSeqStart" -> TEnumSeqSep [] k = "SeqStart" -> TSeqSep
      [] k = "EnumMapStart" -> TEnumMapSep [] k = "MapStart" -> TMapSep
EndOf(k) ==
    CASE k = "EnumSeqStart" -> TEnumSeqEnd [] k = "SeqStart" -> TSeqEnd
      [] k = "EnumMapStart" -> TEnumMapEnd [] k = "MapStart" -> TMapEnd
ShapeCalled ==
    /\ Running("visit_enum", "shape") /\ tokens # <<>>
    /\ \/ Variant.t = "VTuple" /\ Head(tokens).k \in {"EnumSeqStart", "SeqStart"}
       \/ Variant.t = "VStruct" /\ Head(tokens).k \in {"EnumMapStart", "MapStart"}
    /\ Head(tokens).i # NoLen
C7_VariantArity ==
    [][ShapeCalled =>
          LET t == Head(tokens)
              req == IF Variant.t = "VTuple" THEN Len(Variant.subs)
                     ELSE Len(Variant.fields)
              body == stack'[Len(stack')]
              helper == stack'[Len(stack') - 1]
          IN  /\ tokens' = Tail(tokens)
              /\ consumed' = Append(consumed, t)
              /\ IF t.i # req
                 THEN /\ ret' = Fail(UnexpectedToken(t))
                      /\ log' = log
                      /\ stack' = Waiting("wait_shape")
                 ELSE /\ ret' = NoRet
                      /\ Len(log') = Len(log) + 1
                      /\ Len(stack') = Len(stack) + 2
                      /\ body.fn = (IF Variant.t = "VTuple" THEN "visit_seq"
                                    ELSE "visit_map")
                      /\ body.sep = SepOf(t.k) /\ body.end = EndOf(t.k)
                      /\ helper.pc = "after" /\ helper.end = EndOf(t.k)]_vars

C7_Witness ==
    /\ last = "visit_tuple" /\ consumed # <<>>
    /\ LastConsumed.k = "SeqStart" /\ LastConsumed.i = MaxLen + 1
    /\ ret = Fail(UnexpectedToken(LastConsumed))
    /\ DeliveredTo("VTuple") = <<>>

\* C8: deserialize_unit_struct, deserialize_newtype_struct,
\* deserialize_tuple_struct and deserialize_struct called with name N, at
\* their named start token (UnitStruct, StructNewType, TupleStructStart,
\* StructStart) carrying another name, fail with InvalidName carrying the
\* token's name; the visitor is not invoked and exactly that start token
\* has been consumed.
RecordStartCalled ==
    /\ stack # <<>> /\ Top.pc = "start" /\ tokens # <<>>
    /\ \/ Top.fn = "deserialize_unit_struct" /\ Head(tokens).k = "UnitStruct"
       \/ Top.fn = "deserialize_newtype_struct" /\ Head(tokens).k = "StructNewType"
       \/ Top.fn = "deserialize_tuple_struct"
          /\ Head(tokens).k = "TupleStructStart"
       \/ Top.fn = "deserialize_struct" /\ Head(tokens).k = "StructStart"
C8_RecordName ==
    [][(RecordStartCalled /\ Head(tokens).n # Top.ty.name) =>
          /\ ret' = Fail(InvalidName(Head(tokens).n))
          /\ tokens' = Tail(tokens)
          /\ consumed' = Append(consumed, Head(tokens))
          /\ log' = log
          /\ stack' = Below]_vars

C8_Witness ==
    /\ last = "deserialize_struct" /\ Len(consumed) = 1
    /\ consumed[1].k = "StructStart" /\ consumed[1].n # sc.ty.name
    /\ ret = Fail(InvalidName(consumed[1].n))
    /\ log = <<>> /\ Done

\* C9: deserialize_enum called with name N, at EnumStart, EnumUnit,
\* EnumNewType, EnumSeqStart or EnumMapStart carrying another enum name, is
\* a hard error that does not invoke the visitor: the call consumes that
\* token and fails with UnexpectedToken carrying it.
EnumNameMismatch ==
    /\ Running("deserialize_enum", "start") /\ tokens # <<>>
    /\ Head(tokens).k \in VariantStarts \cup {"EnumStart"}
    /\ Head(tokens).n # Top.ty.name
C9_EnumName ==
    [][EnumNameMismatch =>
          /\ ret' = Fail(UnexpectedToken(Head(tokens)))
          /\ tokens' = Tail(tokens)
          /\ log' = log
          /\ stack' = Below]_vars

C9_Witness ==
    /\ last = "deserialize_enum" /\ Len(consumed) = 1
    /\ consumed[1].k = "EnumSeqStart" /\ consumed[1].n # sc.ty.name
    /\ ret = Fail(UnexpectedToken(consumed[1]))
    /\ log = <<>> /\ Done

\* C9 as stated: ... and the error is of the invalid-name kind.
C9_EnumInvalidName ==
    [][EnumNameMismatch =>
          /\ ret'.st = "err" /\ ret'.err.e = "InvalidName"
          /\ log' = log]_vars

\* C10: every enum-name-carrying token consumed while an enum requested
\* with name N is decoded carries the name N: after a matching EnumStart(N)
\* a following EnumUnit / EnumNewType / EnumSeqStart / EnumMapStart with
\* another enum name makes the decode fail.
C10_InnerEnumName ==
    (/\ Done /\ sc.ty.t = "Enum"
     /\ \E j \in 1..Len(consumed) :
           /\ consumed[j].k \in VariantStarts \cup {"EnumStart"}
           /\ consumed[j].n # sc.ty.name)
    => ret.st = "err"

\* C11: deserialize_struct accepts a StructStart(name, _) list (StructSep
\* before each entry, StructEnd) and a plain MapStart(_) list (MapSep before
\* each entry, MapEnd); for the same keys and values in the same order both
\* forms hand the visitor the same keys and values, yield the same struct,
\* and leave the cursor just past their terminator.
StructAsMap(ty, v) ==
    <<TMapStart(Len(v.c))>> \o EncEntries(<<TMapSep>>, ty, v.c, 1) \o <<TMapEnd>>
\* What the visitors of struct ty and of its fields are handed for v.
RECURSIVE FieldLog(_, _, _)
FieldLog(ty, v, j) ==
    IF j > Len(ty.fields) THEN <<>>
    ELSE << [m |-> "visit_str", t |-> "Ident", s |-> ty.fields[j], i |-> 0],
            [m |-> "visit_u8", t |-> "U8", s |-> "", i |-> v.c[j].i] >>
         \o FieldLog(ty, v, j + 1)
StructLogOf(ty, v) ==
    << [m |-> "visit_map", t |-> "Struct", s |-> "", i |-> 0] >>
    \o FieldLog(ty, v, 1)
C11_StructFromMap ==
    (Done /\ sc.ty.t = "Struct") =>
        \A k \in 0..(NumSamples - 1), extra \in {<<>>, <<TUnit>>} :
            LET v == Sample(sc.ty, k)
            IN  sc.toks \in {Encode(sc.ty, v) \o extra,
                             StructAsMap(sc.ty, v) \o extra}
                => /\ ret = Ok(v)
                   /\ log = StructLogOf(sc.ty, v)
                   /\ tokens = extra
                   /\ LastConsumed = (IF Head(sc.toks).k = "MapStart"
                                      THEN TMapEnd ELSE TStructEnd)

C11_Witness ==
    /\ Done /\ sc.ty.t = "Struct"
    /\ sc.toks = StructAsMap(sc.ty, Sample(sc.ty, 1)) \o <<TUnit>>
    /\ ret = Ok(Sample(sc.ty, 1)) /\ tokens = <<TUnit>>
    /\ LastConsumed = TMapEnd

\* C12: visit_struct with no requested field succeeds and consumes exactly
\* two tokens on [EnumMapStart(E, Vz, 0), EnumMapEnd], on the empty map
\* [MapStart(Some(0)), MapEnd], and, through the generic dispatch, on
\* [MapStart(None), MapEnd].
ZeroFieldForms ==
    {[pre |-> <<>>, pair |-> <<TEnumMapStart("E", "Vz", 0), TEnumMapEnd>>],
     [pre |-> <<TEnumStart("E")>>,
      pair |-> <<TEnumMapStart("E", "Vz", 0), TEnumMapEnd>>],
     [pre |-> <<TEnumStart("E"), TStr("Vz")>>, pair |-> <<TMapStart(0), TMapEnd>>],
     [pre |-> <<TEnumStart("E"), TStr("Vz")>>,
      pair |-> <<TMapStart(NoLen), TMapEnd>>]}
C12_ZeroFieldVariant ==
    \A f \in ZeroFieldForms, extra \in {<<>>, <<TUnit>>} :
        (sc.ty = EnumE /\ sc.toks = f.pre \o f.pair \o extra) =>
            /\ Running("visit_enum", "shape") =>
                  (consumed = f.pre /\ Variant.name = "Vz")
            /\ (Running("visit_enum", "wait_shape") /\ ret.st # "none") =>
                  (ret.st = "ok" /\ consumed = f.pre \o f.pair)
            /\ Done =>
                  /\ ret = Ok(Val("Enum", "Vz", 0,
                                  <<Build(VariantTy(EnumE, "Vz"), <<>>)>>))
                  /\ tokens = extra

C12_Witness ==
    /\ sc.ty = EnumE
    /\ sc.toks = <<TEnumStart("E"), TStr("Vz"), TMapStart(NoLen), TMapEnd>>
    /\ Running("visit_enum", "wait_shape") /\ ret.st = "ok"
    /\ consumed = sc.toks /\ last = "expect_token"

\* C13: assert_de_tokens passes only if the fresh decode and the in-place
\* decode, each on a Deserializer of its own that starts at the first token
\* of the same list, both succeed, both give a value equal to the expected
\* one, and both leave remaining() = 0; an error, an unequal value or a
\* leftover token after either of them is a panic.
FreshReturned ==
    /\ harness.fn = "assert_de_tokens" /\ harness.pc = "fresh"
    /\ stack = <<>> /\ ret.st # "none"
InPlaceReturned ==
    /\ harness.fn = "assert_de_tokens" /\ harness.pc = "in_place"
    /\ stack = <<>> /\ ret.st # "none"
Panicked(h) == h.pc = "done" /\ h.verdict \notin {"", "pass"}
C13_AssertDeTokens ==
    [][/\ FreshReturned =>
             IF ret = Ok(harness.value) /\ remaining(tokens) = 0
             THEN /\ harness'.pc = "in_place" /\ harness'.verdict = ""
                  /\ tokens' = sc.toks /\ consumed' = <<>>
             ELSE Panicked(harness')
       /\ InPlaceReturned =>
             IF /\ ret.st = "ok" /\ harness'.in_place = harness.value
                /\ remaining(tokens) = 0
             THEN harness'.pc = "done" /\ harness'.verdict = "pass"
             ELSE Panicked(harness')
       /\ (harness'.verdict = "pass" /\ harness.verdict # "pass"
           /\ harness.fn = "assert_de_tokens") => InPlaceReturned]_vars

C13_Witness ==
    /\ harness.fn = "assert_de_tokens" /\ harness.verdict = "pass"
    /\ harness.impl = "assign" /\ sc.ty = EnumE /\ harness.value.s = "Vt"
    /\ ret = Ok(harness.value) /\ harness.in_place = harness.value
    /\ consumed = sc.toks

\* C14: the target of the in-place decode is the value the fresh decode
\* returned, so an in-place decode that consumes every token and leaves its
\* target as it was passes assert_de_tokens; an in-place decode that
\* consumes no token fails on the leftover tokens whenever the list is not
\* empty.
C14_InPlaceWeakSpot ==
    (/\ harness.fn = "assert_de_tokens" /\ harness.pc = "done"
     /\ last = "internal_assert_de_in_place_tokens") =>
        /\ (harness.impl = "keep" /\ ret.st = "ok" /\ tokens = <<>>) =>
              harness.verdict = "pass"
        /\ (harness.impl = "noop" /\ sc.toks # <<>>) =>
              (consumed = <<>> /\ harness.verdict = "remaining tokens")

C14_Witness ==
    /\ harness.fn = "assert_de_tokens" /\ harness.pc = "done"
    /\ last = "internal_assert_de_in_place_tokens"
    /\ harness.impl = "keep" /\ harness.verdict = "pass"
    /\ sc.ty.t = "Struct" /\ consumed = sc.toks /\ Len(sc.toks) > 2

\* C15: assert_de_tokens_error passes iff the decode fails with an error
\* whose rendering equals the expected message and at most one token is
\* left at that moment: after the error it consumes one more token if there
\* is one and panics if a token still remains; it panics too if the decode
\* succeeds.  The list of Example B, [Struct S of 2, Str x], leaves at most
\* one token unconsumed.
ErrorDecodeReturned ==
    /\ harness.fn = "assert_de_tokens_error" /\ harness.pc = "decode"
    /\ stack = <<>> /\ ret.st # "none"
C15_AssertDeTokensError ==
    [][ErrorDecodeReturned =>
          /\ IF /\ ret.st = "err" /\ Render(ret.err) = harness.error
                /\ Len(tokens) <= 1
             THEN harness'.pc = "done" /\ harness'.verdict = "pass"
             ELSE Panicked(harness')
          /\ (ret.st = "err" /\ Render(ret.err) = harness.error) =>
                /\ tokens' = (IF tokens = <<>> THEN <<>> ELSE Tail(tokens))
                /\ (harness'.verdict = "pass") <=> (tokens' = <<>>)
          /\ ret.st = "ok" =>
                harness'.verdict = "tokens deserialized successfully"
          /\ sc.toks = ExampleBTokens => (ret.st = "err" /\ Len(tokens) <= 1)]_vars

C15_Witness ==
    /\ harness.fn = "assert_de_tokens_error" /\ harness.verdict = "pass"
    /\ ret = Fail(Message("invalid length"))
    /\ last = "assert_de_tokens_error"
    /\ consumed = sc.toks /\ LastConsumed = TTupleEnd /\ tokens = <<>>

\* C16: an error is fatal at once: after an error raised at any depth no
\* enclosing frame consumes another token (visit_seq and visit_map leave the
\* terminator where it is after a failed visitor), no visitor method is
\* invoked any more, and the error each frame returns, the top-level one
\* included, is that first error unchanged.
C16_ErrorsFatal ==
    [][ret.st = "err" =>
          /\ tokens' = tokens /\ consumed' = consumed
          /\ ret' = ret /\ log' = log
          /\ stack' = Below]_vars

C16_Witness ==
    /\ Done /\ ret.st = "err"
    /\ last \in {"Deserializer::visit_seq", "Deserializer::visit_map"}
    /\ sc.ty.t \in {"Seq", "Map"} /\ sc.ty.subs[1].t \in {"Seq", "Map", "Tuple", "Struct", "Enum", "Option"}
    /\ tokens # <<>> /\ Head(tokens) \in {TSeqEnd, TMapEnd}

\* C17: every decode entry point (deserialize, deserialize_option,
\* deserialize_enum, deserialize_unit_struct, deserialize_newtype_struct,
\* deserialize_seq_fixed_size, deserialize_tuple, deserialize_tuple_struct,
\* deserialize_struct, the element request of a sequence, the key request of
\* a map, the variant selection and the four variant-shape decodes) invoked
\* when no token remains returns EndOfTokens without invoking the visitor,
\* and the cursor stays empty.
EntryPoints ==
    {"deserialize", "deserialize_option", "deserialize_enum",
     "deserialize_unit_struct", "deserialize_newtype_struct",
     "deserialize_seq_fixed_size", "deserialize_tuple",
     "deserialize_tuple_struct", "deserialize_struct"}
ShapeDecodes == {"visit_unit", "visit_newtype_seed", "visit_tuple", "visit_struct"}
\* The entry point about to run, "" if the next step is not one.
EntryPointCalled ==
    CASE stack = <<>> -> ""
      [] Top.fn \in EntryPoints /\ Top.pc = "start" -> Top.fn
      [] Running("visit_seq", "req") -> "visit_seed"
      [] Running("visit_map", "req") /\ Top.sub = "DeserializerMapVisitor" -> "visit_key_seed"
      [] Running("visit_enum", "req") -> "visit_variant_seed"
      [] Running("visit_enum", "shape") ->
            CASE Variant.t = "VUnit" -> "visit_unit"
              [] Variant.t = "VNewtype" -> "visit_newtype_seed"
              [] Variant.t = "VTuple" -> "visit_tuple"
              [] OTHER -> "visit_struct"
      [] OTHER -> ""
C17_EndOfTokens ==
    [][(EntryPointCalled # "" /\ tokens = <<>>) =>
          /\ last' = EntryPointCalled
          /\ ret' = Fail(EndOfTokens)
          /\ log' = log
          /\ tokens' = <<>> /\ consumed' = consumed]_vars

C17_Witness ==
    /\ last \in ShapeDecodes /\ ret = Fail(EndOfTokens)
    /\ tokens = <<>> /\ consumed = sc.toks /\ consumed # <<>>
    /\ sc.ty = EnumE /\ LastConsumed.k = "Str"

\* C18: an element request of a sequence (visit_seed) or key request of a
\* map (visit_key_seed) whose next token is the terminator of the
\* sub-decoder returns "no more" and consumes nothing, so that a repeated
\* request returns it again; otherwise it consumes one token, which must be
\* the separator: any other token fails with UnexpectedToken carrying the
\* consumed token, no token fails with EndOfTokens, and only after the
\* separator is the element or key decoded.  A value request
\* (visit_value_seed) decodes the value at once, no token consumed between
\* key and value.
ElementRequested ==
    \/ Running("visit_seq", "req")
    \/ Running("visit_map", "req") /\ Top.sub = "DeserializerMapVisitor"
ValueRequested == Running("visit_map", "value") /\ Top.sub = "DeserializerMapVisitor"
RequestedTy == IF Top.fn = "visit_seq" THEN ElemTy(Top) ELSE KeyTy(Top)
C18_ElementRequest ==
    [][/\ ElementRequested =>
            LET t == first(tokens)
            IN  CASE t = Top.end ->
                       /\ ret' = Ok(NoMore)
                       /\ tokens' = tokens /\ consumed' = consumed /\ log' = log
                       /\ visit_seed(tokens', Top.len, Top.sep, Top.end) = RetNone
                       /\ visit_key_seed(tokens', Top.len, Top.sep, Top.end) = RetNone
                  [] t = NoTok ->
                       /\ ret' = Fail(EndOfTokens)
                       /\ tokens' = tokens /\ consumed' = consumed /\ log' = log
                  [] t = Top.sep ->
                       /\ tokens' = Tail(tokens) /\ consumed' = Append(consumed, t)
                       /\ ret' = NoRet /\ log' = log
                       /\ stack'[Len(stack')] = CallFrame(RequestedTy)
                  [] OTHER ->
                       /\ tokens' = Tail(tokens) /\ consumed' = Append(consumed, t)
                       /\ ret' = Fail(UnexpectedToken(t)) /\ log' = log
       /\ ValueRequested =>
             /\ tokens' = tokens /\ consumed' = consumed /\ log' = log
             /\ ret' = NoRet
             /\ stack'[Len(stack')] = CallFrame(ValueTy(Top))]_vars

C18_Witness ==
    /\ last = "visit_key_seed" /\ sc.ty.t = "Map"
    /\ consumed # <<>> /\ LastConsumed.k = "Str"
    /\ ret = Fail(UnexpectedToken(LastConsumed))
    /\ Len(consumed) > 3

\* C19: once the visitor of a sequence or map has returned successfully,
\* visit_seq / visit_map consume exactly one more token and succeed only if
\* it is the terminator of the flavor; a visitor that stops before the
\* terminator makes the decode fail with UnexpectedToken carrying the token
\* found in the terminator's place.
VisitorReturnedOk ==
    /\ stack # <<>>
    /\ Top.fn \in {"Deserializer::visit_seq", "Deserializer::visit_map"}
    /\ Top.pc = "after" /\ ret.st = "ok"
C19_DoubleTermination ==
    [][VisitorReturnedOk =>
          /\ stack' = Below /\ log' = log
          /\ IF tokens = <<>>
             THEN /\ ret' = Fail(EndOfTokens)
                  /\ tokens' = tokens /\ consumed' = consumed
             ELSE /\ tokens' = Tail(tokens)
                  /\ consumed' = Append(consumed, Head(tokens))
                  /\ ret' = IF Head(tokens) = Top.end THEN ret
                            ELSE Fail(UnexpectedToken(Head(tokens)))]_vars

C19_Witness ==
    /\ Done /\ last = "expect_token" /\ sc.ty.t = "Tuple"
    /\ Len(log) = MaxLen + 1
    /\ consumed # <<>> /\ LastConsumed = TTupleSep
    /\ ret = Fail(UnexpectedToken(TTupleSep))

\* C20: the declared length is advisory: two token lists that differ only
\* in the len of a SeqStart or MapStart that deserialize dispatches on
\* (None, 0, lengths above and below the number of elements), decoded by
\* the same visitor, which reads until "no more elements", have the same
\* outcome: the same Result, the same visitor calls and the same number of
\* tokens consumed.  len only sets the size hint, which is decremented per
\* element, stops at 0 and never goes below it.
\* The start token was not dispatched on: one of the two decodes rejected
\* it (a separator, a terminator or another shape was expected in its
\* place, or visit_tuple / visit_struct compared its length, C7).
StartRejected ==
    \/ /\ harness.ret.st = "err"
       /\ harness.ret.err = UnexpectedToken(sc.toks[harness.at])
    \/ /\ ret.st = "err"
       /\ ret.err = UnexpectedToken(Redeclare(sc.toks, harness.at, harness.len)[harness.at])
SecondDone ==
    /\ harness.fn = "redeclared" /\ harness.pc = "second"
    /\ stack = <<>> /\ ret.st # "none"
C20_LenAdvisory ==
    /\ (SecondDone /\ ~StartRejected) =>
          /\ ret = harness.ret
          /\ log = harness.log
          /\ Len(consumed) = harness.n
    /\ \A j \in 1..Len(stack) :
          /\ stack[j].len = NoLen \/ stack[j].len >= 0
          /\ size_hint(stack[j].len)[1] >= 0
          /\ size_hint(stack[j].len)[2] = stack[j].len

C20_Witness ==
    /\ SecondDone /\ sc.kind = "encoded" /\ sc.ty = TySeq(TyU8)
    /\ Len(sc.val.c) = MaxLen /\ harness.len = 0
    /\ ret = Ok(sc.val) /\ ret = harness.ret
    /\ Len(log) = MaxLen + 1 /\ tokens = <<>>

\* C21: the separator/terminator pair of a body is fixed by the start token
\* consumed (SeqStart and SeqArrayStart: SeqSep/SeqEnd, TupleStart:
\* TupleSep/TupleEnd, TupleStructStart: TupleStructSep/TupleStructEnd,
\* MapStart: MapSep/MapEnd, StructStart: StructSep/StructEnd, EnumSeqStart:
\* EnumSeqSep/EnumSeqEnd, EnumMapStart: EnumMapSep/EnumMapEnd), in generic
\* dispatch and in the shape-specific entry points alike; a body written
\* with the separator or terminator of another pair is never accepted and
\* fails with UnexpectedToken.
PairOf(t) ==
    CASE t.k \in {"SeqStart", "SeqArrayStart"} -> <<TSeqSep, TSeqEnd>>
      [] t.k = "TupleStart" -> <<TTupleSep, TTupleEnd>>
      [] t.k = "TupleStructStart" -> <<TTupleStructSep, TTupleStructEnd>>
      [] t.k = "MapStart" -> <<TMapSep, TMapEnd>>
      [] t.k = "StructStart" -> <<TStructSep, TStructEnd>>
      [] t.k = "EnumSeqStart" -> <<TEnumSeqSep, TEnumSeqEnd>>
      [] t.k = "EnumMapStart" -> <<TEnumMapSep, TEnumMapEnd>>
      [] OTHER -> <<NoTok, NoTok>>
\* The body of the decoded list is written with another pair than that of
\* its start token.
Mispaired ==
    /\ sc.kind = "paired"
    /\ sc.toks[Len(sc.toks)] # PairOf(sc.toks[1])[2]
C21_FlavorPairing ==
    (Done /\ Mispaired) =>
        /\ ret.st = "err"
        /\ Len(consumed) > 1 => ret.err.e = "UnexpectedToken"

\* C22: variant selection only peeks: when the next token is EnumUnit,
\* EnumNewType, EnumSeqStart or EnumMapStart, visit_variant_seed resolves
\* the variant from the variant name the token carries and consumes no
\* token, so that the decode of the variant's shape (visit_unit,
\* visit_newtype_seed, visit_tuple, visit_struct) sees and consumes that
\* same token; for any other next token the variant key is decoded through
\* generic dispatch, which consumes it.  So a bare EnumUnit(E, V) decoded as
\* a unit variant of E consumes exactly one token.
VariantRequested == Running("visit_enum", "req") /\ tokens # <<>>
VariantReturned == Running("visit_enum", "wait_variant") /\ ret.st = "ok"
StartOfShape(vt) ==
    CASE vt.t = "VUnit" -> "EnumUnit"
      [] vt.t = "VNewtype" -> "EnumNewType"
      [] vt.t = "VTuple" -> "EnumSeqStart"
      [] OTHER -> "EnumMapStart"
ShapeRequested ==
    /\ Running("visit_enum", "shape") /\ tokens # <<>>
    /\ Head(tokens).k = StartOfShape(Variant)
KeyDispatched ==
    /\ Running("deserialize", "start") /\ Top.ty.t = "Ident" /\ tokens # <<>>
C22_VariantPeek ==
    [][/\ VariantRequested =>
             /\ tokens' = tokens /\ consumed' = consumed
             /\ IF Head(tokens).k \in VariantStarts
                THEN /\ log' = Append(log, [m |-> "visit_str", t |-> "Ident",
                                            s |-> Head(tokens).v, i |-> 0])
                     /\ ret'.st # "none"
                     /\ ret'.st = "ok" => ret'.val.s = Head(tokens).v
                ELSE /\ log' = log /\ ret' = NoRet
                     /\ stack'[Len(stack')] =
                           Frame("deserialize", "start", VariantIdentTy(Top))
       /\ VariantReturned =>
             /\ tokens' = tokens /\ consumed' = consumed
             /\ stack' # <<>> /\ stack'[Len(stack')].pc = "shape"
       /\ ShapeRequested =>
             /\ tokens' = Tail(tokens)
             /\ consumed' = Append(consumed, Head(tokens))
       /\ KeyDispatched =>
             /\ tokens' = Tail(tokens)
             /\ consumed' = Append(consumed, Head(tokens))
       /\ (stack' = <<>> /\ sc.ty = EnumE /\ sc.toks = <<TEnumUnit("E", "Vu")>>) =>
             /\ ret'.st = "ok" /\ ret'.val.s = "Vu"
             /\ consumed' = sc.toks /\ Len(consumed') = 1]_vars

C22_Witness ==
    /\ last = "visit_tuple" /\ sc.ty = EnumE
    /\ sc.toks # <<>> /\ sc.toks[1].k = "EnumSeqStart"
    /\ consumed = <<sc.toks[1]>>
    /\ Len(log) = 3 /\ log[2].m = "visit_str" /\ log[2].s = "Vt"
    /\ ret.st = "none"

\* C23: termination: for every finite token list and every visitor that
\* makes finitely many requests per level over a type of finite depth, the
\* top-level decode eventually returns, a value or an error; no run of
\* steps that only peek (the pass-through of an option, the selection of a
\* variant, the peek of a terminator, the fall-through of a shape-specific
\* entry point to generic dispatch) goes on forever.
C23_Termination == <>(Done /\ ret.st \in {"ok", "err"})

C23_Witness ==
    /\ Done /\ ret.st = "ok" /\ sc.ty = TyOption(TySeq(TyU8))
    /\ sc.toks # <<>> /\ sc.toks[1].k = "SeqStart" /\ tokens = <<>>
    /\ Len(consumed) > 2

\* C24: whenever a decoder operation returns UnexpectedToken(t), t is the
\* token consumed last and the cursor stands right after the position of t
\* in the list: the offending token is consumed, never only peeked.  This
\* holds for expect_token, for generic dispatch on a token it does not
\* recognise, for deserialize_enum on a token that does not match, for the
\* separator of a sequence or map and for the arity of an enum variant.
C24_UnexpectedConsumed ==
    (ret.st = "err" /\ ret.err.e = "UnexpectedToken") =>
        /\ consumed # <<>>
        /\ ret.err.tok = LastConsumed
        /\ sc.toks[Len(consumed)] = ret.err.tok
        /\ consumed \o tokens = sc.toks

C24_Witness ==
    /\ last = "visit_tuple" /\ sc.ty = EnumE
    /\ consumed # <<>> /\ LastConsumed.k = "EnumSeqStart"
    /\ LastConsumed.i # MaxLen
    /\ ret = Fail(UnexpectedToken(LastConsumed))
    /\ tokens # <<>>

\* C25: generic dispatch on an enum variant token (EnumNewType,
\* EnumSeqStart, EnumMapStart) presents the visitor a map of exactly one
\* entry whose key is the variant name the token carries; when the start
\* token is followed by a well-formed body of k >= 0 elements or entries
\* written with EnumSeqSep/EnumSeqEnd, respectively EnumMapSep/EnumMapEnd,
\* the decode of the value consumes the body through its terminator, the
\* empty body k = 0 included.
\* A list decoded by generic dispatch that is a variant token and its
\* well-formed body.
VariantDispatched ==
    /\ sc.ty = TyIgnored /\ sc.toks # <<>>
    /\ \/ /\ sc.kind = "untyped"
          /\ sc.toks[1].k \in {"EnumNewType", "EnumSeqStart", "EnumMapStart"}
       \/ /\ sc.kind = "paired"
          /\ sc.toks[1].k \in {"EnumSeqStart", "EnumMapStart"}
          /\ sc.toks[Len(sc.toks)] = PairOf(sc.toks[1])[2]
C25_EnumVariantMap ==
    (Done /\ VariantDispatched) =>
        /\ ret = Ok(IgnoredVal)
        /\ tokens = <<>> /\ consumed = sc.toks
        /\ Len(log) >= 2
        /\ log[1] = [m |-> "visit_map", t |-> "Ignored", s |-> sc.toks[1].v, i |-> 0]
        /\ log[2] = [m |-> "visit_str", t |-> "Ignored", s |-> sc.toks[1].v, i |-> 0]

====
